---- MODULE Spec2Model ----
(***************************************************************************)
(* Knowledge-base ingestion pipeline (apps/worker/src/kb_pipeline).        *)
(*                                                                         *)
(* The store holds one run row (kb_ingest_runs), its task rows             *)
(* (kb_ingest_tasks) and the chunk rows (kb_chunks).  A command (run,      *)
(* resume, retry-failed) executes _execute_run: it marks the run started,  *)
(* seeds three bounded queues, and three worker pools move every task id   *)
(* through extraction, embedding and upsert.  Every repository operation   *)
(* is one committed statement, so each is one atomic step here; a step of  *)
(* the orchestrator or of a worker is the code between two awaits.         *)
(***************************************************************************)
EXTENDS Integers, Sequences, FiniteSets, Bags, TLC

\* ------------------------------------------------------------------ bounds
\* largest plan (number of chunk tasks of the run); the plan may be empty
MaxTasks == 2
\* largest configured request_retries when the stage clients are followed
MaxRetries == 2
\* how many times the same plan is run when the stage clients are followed
MaxRuns == 2
\* largest token count of a document
MaxDocTokens == 8
\* largest chunk_size (and chunk_overlap) given to the planner
MaxChunkSize == 3
\* largest number of sources in the manifest
MaxSources == 2
\* largest max_chunks given to the planner
MaxCap == 3

\* --------------------------------------------------------------- constants
\* kb_ingest_tasks.embedding and kb_chunks.embedding are Vector(1536)
EmbeddingDim == 1536

\* the PipelineConfig of the process (small pools and queues; the extraction
\* stage has two workers)
config ==
  [ llm_concurrency    |-> 2,
    embed_concurrency  |-> 1,
    upsert_concurrency |-> 1,
    queue_maxsize      |-> 1 ]

Stages == {"llm", "embed", "upsert"}
StageStatus == {"PENDING", "RUNNING", "SUCCEEDED", "FAILED"}
FinalStatus == {"PENDING", "COMPLETED", "FAILED"}
RunStatus == {"PENDING", "RUNNING", "PARTIAL_FAILURE", "FAILED", "COMPLETED", "CANCELLED"}

\* the sentinel "__STOP__" put on a queue to stop one worker
STOP == 0

Max(a, b) == IF a >= b THEN a ELSE b

\* ------------------------------------------------------------- repository

\* the task row inserted by create_run_from_plan: every status PENDING, the
\* retry counters 0, the errors, structured_json and embedding NULL.  An error
\* is its text ("" for NULL), structured_json is the number of the run whose
\* extraction produced it (0 for NULL), embedding is its length (0 for NULL)
NewTaskRow ==
  [ llm_status         |-> "PENDING",
    embed_status       |-> "PENDING",
    upsert_status      |-> "PENDING",
    final_status       |-> "PENDING",
    llm_retry_count    |-> 0,
    embed_retry_count  |-> 0,
    upsert_retry_count |-> 0,
    llm_error          |-> "",
    embed_error        |-> "",
    upsert_error       |-> "",
    structured_json    |-> 0,
    embedding          |-> 0 ]

\* create_run_from_plan for a plan of n tasks: the run row and the task rows
create_run_from_plan(n) ==
  [ run   |-> [ status           |-> "PENDING",
                total_chunks     |-> n,
                completed_chunks |-> 0,
                failed_chunks    |-> 0 ],
    tasks |-> [i \in 1..n |-> NewTaskRow] ]

\* mutant: the start of an execution also resets the run's counters
mark_run_started_reset(r) ==
  [r EXCEPT !.status = "RUNNING", !.completed_chunks = 0, !.failed_chunks = 0]

mark_run_started(r) == [r EXCEPT !.status = "RUNNING"]

cancel_run(r) == [r EXCEPT !.status = "CANCELLED"]

StatusOf(row, stage) ==
  CASE stage = "llm"    -> row.llm_status
    [] stage = "embed"  -> row.embed_status
    [] stage = "upsert" -> row.upsert_status

WithStatus(row, stage, s) ==
  CASE stage = "llm"    -> [row EXCEPT !.llm_status = s]
    [] stage = "embed"  -> [row EXCEPT !.embed_status = s]
    [] stage = "upsert" -> [row EXCEPT !.upsert_status = s]

ErrorOf(row, stage) ==
  CASE stage = "llm"    -> row.llm_error
    [] stage = "embed"  -> row.embed_error
    [] stage = "upsert" -> row.upsert_error

WithError(row, stage, e) ==
  CASE stage = "llm"    -> [row EXCEPT !.llm_error = e]
    [] stage = "embed"  -> [row EXCEPT !.embed_error = e]
    [] stage = "upsert" -> [row EXCEPT !.upsert_error = e]

WithRetryCount(row, stage, n) ==
  CASE stage = "llm"    -> [row EXCEPT !.llm_retry_count = n]
    [] stage = "embed"  -> [row EXCEPT !.embed_retry_count = n]
    [] stage = "upsert" -> [row EXCEPT !.upsert_retry_count = n]

\* "retry_count": max(0, attempts_used - 1)
RetryCount(attempts_used) == Max(0, attempts_used - 1)

\* UPDATE ... SET <stage>_status = 'RUNNING', <stage>_error = NULL WHERE id = task_id
mark_stage_running(ts, id, stage) ==
  [ts EXCEPT ![id] = WithError(WithStatus(@, stage, "RUNNING"), stage, "")]

KeepSucceeded(s) == IF s = "SUCCEEDED" THEN s ELSE "PENDING"

FinalFromUpsert(s) == IF s = "SUCCEEDED" THEN "COMPLETED" ELSE "PENDING"

\* mutant: the outputs are stored but llm_status is not set
save_llm_success_no_status(ts, id, structured_json, attempts_used) ==
  [ts EXCEPT ![id] =
     [ @ EXCEPT !.llm_retry_count = RetryCount(attempts_used),
                !.structured_json = structured_json,
                !.embed_status    = KeepSucceeded(ts[id].embed_status),
                !.upsert_status   = KeepSucceeded(ts[id].upsert_status),
                !.final_status    = FinalFromUpsert(ts[id].upsert_status) ]]

save_llm_success(ts, id, structured_json, attempts_used) ==
  [ts EXCEPT ![id] =
     [ @ EXCEPT !.llm_status      = "SUCCEEDED",
                !.llm_retry_count = RetryCount(attempts_used),
                !.structured_json = structured_json,
                !.embed_status    = KeepSucceeded(ts[id].embed_status),
                !.upsert_status   = KeepSucceeded(ts[id].upsert_status),
                !.final_status    = FinalFromUpsert(ts[id].upsert_status) ]]

\* mutant: a vector column declared without a dimension
VectorColumnAccepts_any(len) == TRUE

\* the vector column accepts only vectors of EmbeddingDim components
VectorColumnAccepts(len) == len = EmbeddingDim

save_embed_success(ts, id, len, attempts_used) ==
  [ts EXCEPT ![id] =
     [ @ EXCEPT !.embed_status  = "SUCCEEDED",
                !.embed_retry_count = RetryCount(attempts_used),
                !.embedding     = len,
                !.upsert_status = KeepSucceeded(ts[id].upsert_status),
                !.final_status  = FinalFromUpsert(ts[id].upsert_status) ]]

\* save_upsert_success raises before any write when an output is missing
UpsertInputsPresent(row) == row.structured_json # 0 /\ row.embedding # 0

\* the kb_chunks row of a task: its key (source_id, chunk_index), which is
\* the task's index in the plan, and its outputs
ChunkRow(ts, id) ==
  [ key |-> id, structured_json |-> ts[id].structured_json, embedding |-> ts[id].embedding ]

\* the rows of the table (a bag of rows) that carry the key
RowsWithKey(chunks, key) == {r \in BagToSet(chunks) : r.key = key}

\* mutant: INSERT without the unique constraint and its ON CONFLICT clause
upsert_chunk_insert_only(chunks, row) == chunks (+) SetToBag({row})

\* INSERT INTO kb_chunks ... ON CONFLICT (source_id, chunk_index) DO UPDATE:
\* the row with the key is overwritten, or the row is added
upsert_chunk(chunks, row) ==
  IF RowsWithKey(chunks, row.key) = {}
  THEN chunks (+) SetToBag({row})
  ELSE (chunks (-) SetToBag(RowsWithKey(chunks, row.key))) (+) SetToBag({row})

\* mutant: the task row is updated without final_status
save_upsert_success_no_final(ts, chunks, id) ==
  [ tasks     |-> [ts EXCEPT ![id] = [ @ EXCEPT !.upsert_status = "SUCCEEDED" ]],
    kb_chunks |-> upsert_chunk(chunks, ChunkRow(ts, id)) ]

\* mutant: the task row is updated without the chunk row being written
save_upsert_success_no_chunk(ts, chunks, id) ==
  [ tasks     |-> [ts EXCEPT ![id] =
                     [ @ EXCEPT !.upsert_status = "SUCCEEDED",
                                !.final_status  = "COMPLETED" ]],
    kb_chunks |-> chunks ]

\* one transaction: the chunk row keyed (source_id, chunk_index), here the
\* task's index, then the task row
save_upsert_success(ts, chunks, id) ==
  [ tasks     |-> [ts EXCEPT ![id] =
                     [ @ EXCEPT !.upsert_status = "SUCCEEDED",
                                !.final_status  = "COMPLETED" ]],
    kb_chunks |-> upsert_chunk(chunks, ChunkRow(ts, id)) ]

\* UPDATE ... SET <stage>_status = 'FAILED', <stage>_retry_count, <stage>_error,
\* final_status = 'FAILED'
save_stage_failure(ts, id, stage, error, attempts_used) ==
  [ts EXCEPT ![id] =
     [ WithError(WithRetryCount(WithStatus(@, stage, "FAILED"), stage,
                                RetryCount(attempts_used)), stage, error)
       EXCEPT !.final_status = "FAILED" ]]

CountFinal(ts, s) == Cardinality({i \in DOMAIN ts : ts[i].final_status = s})

\* mutant: the rule for completed and pending tasks is missing
FinalizeStatus_no_pending_rule(total, completed, failed, pending) ==
  IF completed = total /\ total > 0 THEN "COMPLETED"
  ELSE IF completed > 0 /\ failed > 0 THEN "PARTIAL_FAILURE"
  ELSE IF failed = total /\ total > 0 THEN "FAILED"
  ELSE IF failed > 0 THEN "FAILED" ELSE "RUNNING"

FinalizeStatus(total, completed, failed, pending) ==
  IF completed = total /\ total > 0 THEN "COMPLETED"
  ELSE IF completed > 0 /\ failed > 0 THEN "PARTIAL_FAILURE"
  ELSE IF failed = total /\ total > 0 THEN "FAILED"
  ELSE IF completed > 0 /\ pending > 0 THEN "PARTIAL_FAILURE"
  ELSE IF failed > 0 THEN "FAILED" ELSE "RUNNING"

\* mutant: failed_chunks counts every task whose final_status is not PENDING
finalize_run_failed_not_pending(r, ts) ==
  LET total     == Cardinality(DOMAIN ts)
      completed == CountFinal(ts, "COMPLETED")
      failed    == CountFinal(ts, "FAILED")
      pending   == CountFinal(ts, "PENDING")
  IN  [ r EXCEPT !.status           = FinalizeStatus(total, completed, failed, pending),
                 !.completed_chunks = completed,
                 !.failed_chunks    = total - pending ]

finalize_run(r, ts) ==
  LET total     == Cardinality(DOMAIN ts)
      completed == CountFinal(ts, "COMPLETED")
      failed    == CountFinal(ts, "FAILED")
      pending   == CountFinal(ts, "PENDING")
  IN  [ r EXCEPT !.status           = FinalizeStatus(total, completed, failed, pending),
                 !.completed_chunks = completed,
                 !.failed_chunks    = failed ]

\* mutant: every task that is not COMPLETED restarts at the extraction stage
SeedList_restart(row, failed_only) ==
  IF row.final_status = "COMPLETED" THEN "none"
  ELSE IF failed_only /\ row.final_status # "FAILED" THEN "none" ELSE "llm"

\* mutant: failed_only is ignored
SeedList_all(row, failed_only) ==
  IF row.final_status = "COMPLETED" THEN "none"
  ELSE IF row.llm_status # "SUCCEEDED" THEN "llm"
  ELSE IF row.embed_status # "SUCCEEDED" THEN "embed"
  ELSE IF row.upsert_status # "SUCCEEDED" THEN "upsert"
  ELSE "none"

\* mutant: a row whose open stage is RUNNING is taken to be in progress and
\* skipped
SeedList_skip_running(row, failed_only) ==
  IF row.final_status = "COMPLETED" THEN "none"
  ELSE IF row.llm_status # "SUCCEEDED"
       THEN (IF row.llm_status = "RUNNING" \/ (failed_only /\ row.llm_status # "FAILED")
             THEN "none" ELSE "llm")
  ELSE IF row.embed_status # "SUCCEEDED"
       THEN (IF row.embed_status = "RUNNING" \/ (failed_only /\ row.embed_status # "FAILED")
             THEN "none" ELSE "embed")
  ELSE IF row.upsert_status # "SUCCEEDED"
       THEN (IF row.upsert_status = "RUNNING" \/ (failed_only /\ row.upsert_status # "FAILED")
             THEN "none" ELSE "upsert")
  ELSE "none"

\* the list a row is appended to by the loop of queue_seed, "none" when the
\* row is skipped
SeedList(row, failed_only) ==
  IF row.final_status = "COMPLETED" THEN "none"
  ELSE IF row.llm_status # "SUCCEEDED"
       THEN (IF failed_only /\ row.llm_status # "FAILED" THEN "none" ELSE "llm")
  ELSE IF row.embed_status # "SUCCEEDED"
       THEN (IF failed_only /\ row.embed_status # "FAILED" THEN "none" ELSE "embed")
  ELSE IF row.upsert_status # "SUCCEEDED"
       THEN (IF failed_only /\ row.upsert_status # "FAILED" THEN "none" ELSE "upsert")
  ELSE "none"

\* the ids of the rows in (source_id, chunk_index) order
OrderedIds(ts) == [i \in 1..Cardinality(DOMAIN ts) |-> i]

\* mutant: the loop does not `continue` after an append, so a row falls through
\* to the checks of the later stages
queue_seed_fallthrough(ts, failed_only) ==
  LET Open(i, st)  == /\ ts[i].final_status # "COMPLETED"
                      /\ st # "SUCCEEDED"
                      /\ (failed_only => st = "FAILED")
      ToLlm(i)     == Open(i, ts[i].llm_status)
      ToEmbed(i)   == Open(i, ts[i].embed_status)
      ToUpsert(i)  == Open(i, ts[i].upsert_status)
  IN  [ llm_task_ids    |-> SelectSeq(OrderedIds(ts), ToLlm),
        embed_task_ids  |-> SelectSeq(OrderedIds(ts), ToEmbed),
        upsert_task_ids |-> SelectSeq(OrderedIds(ts), ToUpsert) ]

queue_seed(ts, failed_only) ==
  LET ToLlm(i)    == SeedList(ts[i], failed_only) = "llm"
      ToEmbed(i)  == SeedList(ts[i], failed_only) = "embed"
      ToUpsert(i) == SeedList(ts[i], failed_only) = "upsert"
  IN  [ llm_task_ids    |-> SelectSeq(OrderedIds(ts), ToLlm),
        embed_task_ids  |-> SelectSeq(OrderedIds(ts), ToEmbed),
        upsert_task_ids |-> SelectSeq(OrderedIds(ts), ToUpsert) ]

EmptySeed == [llm_task_ids |-> <<>>, embed_task_ids |-> <<>>, upsert_task_ids |-> <<>>]


\* ------------------------------------------------------------ orchestrator
VARIABLES
  run,         \* the kb_ingest_runs row of the run
  tasks,       \* the kb_ingest_tasks rows of the run, by id
  kb_chunks,   \* the kb_chunks table, a bag of rows
  cmd,         \* the command being executed (and whether it found the run COMPLETED)
  pc,          \* the orchestrator's position, "idle" between commands
  cancelling,  \* the orchestrator has received the cancellation
  ended,       \* how the last command ended
  seed,        \* the RunQueueSeed of the current execution
  to_push,     \* the part of the seed not yet put on the queues
  stops,       \* the queues still owed a stop sentinel, in order
  queue,       \* the three asyncio queues
  unfinished,  \* each queue's count of items put and not yet task_done
  worker,      \* each worker's position, its task id and its stage result
  runs,        \* the number of runs created for the plan so far
  call,        \* the stage call in progress, when the clients are followed
  chunked,     \* a call of chunk_tokens: its arguments and its outcome
  planned,     \* invocations of plan_from_kb: their inputs and their results
  progress,    \* the progress map of the current execution, by source and stage
  started      \* the (task id, stage) pairs whose stage start this execution made

vars == << run, tasks, kb_chunks, cmd, pc, cancelling, ended, seed, to_push,
           stops, queue, unfinished, worker, runs, call, chunked, planned,
           progress, started >>

\* the variables of planning, which execution does not touch
planner_vars == << chunked, planned >>

\* no call of chunk_tokens and no invocation of plan_from_kb is followed
NoChunking == [pc |-> "none"]

NoPlanning == [pc |-> "none"]

\* no stage call is followed
NoCall == [pc |-> "none"]

\* str(exc) of the exception a worker caught
StageError == "stage error"

PoolSize(stage) ==
  CASE stage = "llm"    -> Max(1, config.llm_concurrency)
    [] stage = "embed"  -> Max(1, config.embed_concurrency)
    [] stage = "upsert" -> Max(1, config.upsert_concurrency)

\* mutant: every queue takes one item more than queue_maxsize
Capacity_one_more(stage) == config.queue_maxsize + 1

Capacity(stage) ==
  IF stage = "upsert" THEN Max(config.queue_maxsize, 256) ELSE config.queue_maxsize

WorkerIds == {w \in Stages \X (1..3) : w[2] <= PoolSize(w[1])}

NoWorkers == [w \in WorkerIds |-> [pc |-> "none", task |-> 0, result |-> 0]]
EmptyQueues == [s \in Stages |-> <<>>]
NoneUnfinished == [s \in Stages |-> 0]

RECURSIVE Repeat(_, _)
Repeat(x, n) == IF n = 0 THEN <<>> ELSE <<x>> \o Repeat(x, n - 1)

\* mutant: one sentinel per queue
StopPlan_one_per_queue == << "llm", "embed", "upsert" >>

\* one sentinel per worker, queue by queue
StopPlan ==
  Repeat("llm", PoolSize("llm")) \o Repeat("embed", PoolSize("embed"))
    \o Repeat("upsert", PoolSize("upsert"))

\* the source a task belongs to: the plan gives a source two chunks
SourceOf(id) == (id + 1) \div 2

\* no execution is under way
NoProgress == << >>

\* progress_counts_by_source: per source and stage, the rows whose stage status
\* is RUNNING, SUCCEEDED, FAILED
progress_counts_by_source(ts) ==
  [ source \in {SourceOf(i) : i \in DOMAIN ts} |->
      [ stage \in Stages |->
          LET Count(st) == Cardinality({i \in DOMAIN ts :
                             SourceOf(i) = source /\ StatusOf(ts[i], stage) = st})
          IN  [ running   |-> Count("RUNNING"),
                succeeded |-> Count("SUCCEEDED"),
                failed    |-> Count("FAILED") ] ] ]

\* _log_progress_stage_start
log_progress_stage_start(pr, id, stage) ==
  [pr EXCEPT ![SourceOf(id)][stage].running = @ + 1]

\* _log_progress_update
log_progress_update(pr, id, stage, status) ==
  [pr EXCEPT ![SourceOf(id)][stage] =
     IF status = "SUCCEEDED"
     THEN [@ EXCEPT !.running = Max(0, @ - 1), !.succeeded = @ + 1]
     ELSE [@ EXCEPT !.running = Max(0, @ - 1), !.failed = @ + 1]]

Init ==
  \E n \in 0..MaxTasks :
    /\ run = create_run_from_plan(n).run
    /\ tasks = create_run_from_plan(n).tasks
    /\ kb_chunks = EmptyBag
    /\ runs = 1
    /\ call = NoCall
    /\ chunked = NoChunking
    /\ planned = NoPlanning
    /\ cmd = [kind |-> "run", failed_only |-> FALSE, found_completed |-> FALSE]
    /\ pc = "mark_run_started"
    /\ cancelling = FALSE
    /\ ended = "none"
    /\ seed = EmptySeed
    /\ to_push = EmptySeed
    /\ stops = <<>>
    /\ queue = EmptyQueues
    /\ unfinished = NoneUnfinished
    /\ worker = NoWorkers
    /\ progress = NoProgress
    /\ started = {}

\* the command is over: asyncio.run cancels the workers that are left
Exit(how) ==
  /\ pc' = "idle"
  /\ ended' = how
  /\ cancelling' = FALSE
  /\ seed' = EmptySeed
  /\ to_push' = EmptySeed
  /\ stops' = <<>>
  /\ queue' = EmptyQueues
  /\ unfinished' = NoneUnfinished
  /\ worker' = NoWorkers
  /\ progress' = NoProgress
  /\ started' = {}

\* mutant: the item is appended twice
Put_twice(stage, item) ==
  /\ Len(queue[stage]) < Capacity(stage)
  /\ queue' = [queue EXCEPT ![stage] = Append(Append(@, item), item)]

\* queue.put(item), which waits while the queue is full
Put(stage, item) ==
  /\ Len(queue[stage]) < Capacity(stage)
  /\ queue' = [queue EXCEPT ![stage] = Append(@, item)]

MarkRunStarted ==
  /\ pc = "mark_run_started"
  /\ run' = mark_run_started(run)
  /\ pc' = "queue_seed"
  /\ UNCHANGED << planner_vars, progress, started, runs, call, tasks, kb_chunks, cmd, cancelling, ended, seed, to_push, stops,
                  queue, unfinished, worker >>

\* queue_seed, progress_counts_by_source, then the three pools are created
QueueSeed ==
  /\ pc = "queue_seed"
  /\ seed' = queue_seed(tasks, cmd.failed_only)
  /\ to_push' = seed'
  /\ progress' = progress_counts_by_source(tasks)
  /\ started' = {}
  /\ worker' = [w \in WorkerIds |-> [pc |-> "get", task |-> 0, result |-> 0]]
  /\ pc' = "seed_push"
  /\ UNCHANGED << planner_vars, runs, call, run, tasks, kb_chunks, cmd, cancelling, ended, stops, queue,
                  unfinished >>

SeedPush ==
  /\ pc = "seed_push"
  /\ \/ /\ to_push.llm_task_ids # <<>>
        /\ Put("llm", Head(to_push.llm_task_ids))
        /\ unfinished' = [unfinished EXCEPT !["llm"] = @ + 1]
        /\ to_push' = [to_push EXCEPT !.llm_task_ids = Tail(@)]
        /\ pc' = pc
     \/ /\ to_push.llm_task_ids = <<>>
        /\ to_push.embed_task_ids # <<>>
        /\ Put("embed", Head(to_push.embed_task_ids))
        /\ unfinished' = [unfinished EXCEPT !["embed"] = @ + 1]
        /\ to_push' = [to_push EXCEPT !.embed_task_ids = Tail(@)]
        /\ pc' = pc
     \/ /\ to_push.llm_task_ids = <<>>
        /\ to_push.embed_task_ids = <<>>
        /\ to_push.upsert_task_ids # <<>>
        /\ Put("upsert", Head(to_push.upsert_task_ids))
        /\ unfinished' = [unfinished EXCEPT !["upsert"] = @ + 1]
        /\ to_push' = [to_push EXCEPT !.upsert_task_ids = Tail(@)]
        /\ pc' = pc
     \/ /\ to_push = EmptySeed
        /\ pc' = "join_llm"
        /\ UNCHANGED << planner_vars, progress, started, runs, call, queue, unfinished, to_push >>
  /\ UNCHANGED << planner_vars, progress, started, runs, call, run, tasks, kb_chunks, cmd, cancelling, ended, seed, stops,
                  worker >>

\* await <stage>_queue.join()
Join(stage, next) ==
  /\ pc = "join_" \o stage
  /\ unfinished[stage] = 0
  /\ pc' = next
  /\ stops' = IF next = "stop_put" THEN StopPlan ELSE stops
  /\ UNCHANGED << planner_vars, progress, started, runs, call, run, tasks, kb_chunks, cmd, cancelling, ended, seed, to_push,
                  queue, unfinished, worker >>

JoinLlm == Join("llm", "join_embed")
JoinEmbed == Join("embed", "join_upsert")
JoinUpsert == Join("upsert", "stop_put")

\* the finally block: one "__STOP__" per worker
StopPut ==
  /\ pc = "stop_put"
  /\ stops # <<>>
  /\ Put(Head(stops), STOP)
  /\ unfinished' = [unfinished EXCEPT ![Head(stops)] = @ + 1]
  /\ stops' = Tail(stops)
  /\ pc' = IF Tail(stops) = <<>> THEN "gather" ELSE "stop_put"
  /\ UNCHANGED << planner_vars, progress, started, runs, call, run, tasks, kb_chunks, cmd, cancelling, ended, seed, to_push,
                  worker >>

\* where a cancellation that leaves _execute_run goes: run_new catches it and
\* calls cancel_run, resume lets it through
Escape ==
  IF cmd.kind = "run"
  THEN /\ pc' = "cancel_run"
       /\ cancelling' = TRUE
       /\ UNCHANGED << planner_vars, progress, started, runs, call, ended, seed, to_push, stops, queue, unfinished, worker >>
  ELSE Exit("interrupted")

\* await asyncio.gather(all workers, return_exceptions=True): every worker
\* task has returned or ended with an exception; then _execute_run returns, or
\* re-raises the cancellation that brought it into the finally block
Gather ==
  /\ pc = "gather"
  /\ \A w \in WorkerIds : worker[w].pc \in {"exited", "raised"}
  /\ \/ /\ ~cancelling
        /\ pc' = "finalize_run"
        /\ UNCHANGED << planner_vars, progress, started, runs, call, cancelling, ended, seed, to_push, stops, queue, unfinished, worker >>
     \/ /\ cancelling
        /\ Escape
  /\ UNCHANGED << planner_vars, runs, call, run, tasks, kb_chunks, cmd >>

FinalizeRun ==
  /\ pc = "finalize_run"
  /\ run' = finalize_run(run, tasks)
  /\ Exit("returned")
  /\ UNCHANGED << planner_vars, runs, call, tasks, kb_chunks, cmd >>

CancelRun ==
  /\ pc = "cancel_run"
  /\ run' = cancel_run(run)
  /\ Exit("interrupted")
  /\ UNCHANGED << planner_vars, runs, call, tasks, kb_chunks, cmd >>

\* a cooperative interrupt: the orchestrator's pending await raises
Interrupt ==
  /\ ~cancelling
  /\ \/ /\ pc \in {"join_llm", "join_embed", "join_upsert"}
        /\ pc' = "stop_put"
        /\ stops' = StopPlan
        /\ cancelling' = TRUE
        /\ UNCHANGED << planner_vars, progress, started, runs, call, ended, seed, to_push, queue, unfinished, worker >>
     \/ /\ pc \in {"queue_seed", "seed_push", "stop_put", "gather"}
        /\ Escape
  /\ UNCHANGED << planner_vars, runs, call, run, tasks, kb_chunks, cmd >>

\* the process is killed
Crash ==
  /\ pc # "idle"
  /\ Exit("killed")
  /\ UNCHANGED << planner_vars, runs, call, run, tasks, kb_chunks, cmd >>

\* `resume --run-id R` (failed_only = FALSE), `retry-failed --run-id R` (TRUE)
Resume(failed_only) ==
  /\ pc = "idle"
  /\ cmd' = [ kind         |-> IF failed_only THEN "retry-failed" ELSE "resume",
              failed_only  |-> failed_only,
              found_completed |-> (run.status = "COMPLETED") ]
  /\ pc' = "mark_run_started"
  /\ ended' = "none"
  /\ UNCHANGED << planner_vars, progress, started, runs, call, run, tasks, kb_chunks, cancelling, seed, to_push, stops,
                  queue, unfinished, worker >>


\* ----------------------------------------------------------------- workers
NextStage(stage) == IF stage = "llm" THEN "embed" ELSE "upsert"

\* the lengths of data[0].embedding the embedding service may answer with
ResponseLens == {0, EmbeddingDim - 1, EmbeddingDim}

TaskDone(stage) == [unfinished EXCEPT ![stage] = @ - 1]

\* task_id = await queue.get() yields the sentinel: it is acknowledged and the
\* worker returns
WorkerStop(w) ==
  /\ worker[w].pc = "get"
  /\ queue[w[1]] # <<>>
  /\ Head(queue[w[1]]) = STOP
  /\ queue' = [queue EXCEPT ![w[1]] = Tail(@)]
  /\ unfinished' = TaskDone(w[1])
  /\ worker' = [worker EXCEPT ![w] = [pc |-> "exited", task |-> 0, result |-> 0]]
  /\ UNCHANGED << planner_vars, progress, started, runs, call, run, tasks, kb_chunks, cmd, pc, cancelling, ended, seed, to_push,
                  stops >>

\* task_id = await queue.get() yields a task id: mark_<stage>_running,
\* load_task_payload, stage start recorded
StageStart(w) ==
  /\ worker[w].pc = "get"
  /\ queue[w[1]] # <<>>
  /\ Head(queue[w[1]]) # STOP
  /\ queue' = [queue EXCEPT ![w[1]] = Tail(@)]
  /\ tasks' = mark_stage_running(tasks, Head(queue[w[1]]), w[1])
  /\ progress' = log_progress_stage_start(progress, Head(queue[w[1]]), w[1])
  /\ started' = started \cup {<< Head(queue[w[1]]), w[1] >>}
  /\ worker' = [worker EXCEPT ![w] =
                  [ pc     |-> IF w[1] = "upsert" THEN "save" ELSE "call",
                    task   |-> Head(queue[w[1]]),
                    result |-> 0 ]]
  /\ UNCHANGED << planner_vars, runs, call, run, kb_chunks, cmd, pc, cancelling, ended, seed, to_push, stops,
                  unfinished >>

\* llm_client.extract(task) answers with a result, which save_llm_success
\* stores, or raises; the call and the save touch this task's row only
Extract(w) ==
  /\ w[1] = "llm"
  /\ worker[w].pc = "call"
  /\ \E ok \in BOOLEAN :
       IF ok
       THEN /\ tasks' = save_llm_success(tasks, worker[w].task, runs, 1)
            /\ worker' = [worker EXCEPT ![w].pc = "put"]
       ELSE /\ tasks' = tasks
            /\ worker' = [worker EXCEPT ![w].pc = "fail"]
  /\ UNCHANGED << planner_vars, progress, started, runs, call, run, kb_chunks, cmd, pc, cancelling, ended, seed, to_push, stops,
                  queue, unfinished >>

\* embed_client.embed(task): combined_text_for_embedding needs structured_json;
\* the service answers with a vector (an empty one is rejected) or an error;
\* save_embed_success stores the vector unless the column refuses its dimension
Embed(w) ==
  /\ w[1] = "embed"
  /\ worker[w].pc = "call"
  /\ \E ok \in BOOLEAN, len \in ResponseLens :
       IF ok /\ len # 0 /\ tasks[worker[w].task].structured_json # 0
       THEN IF VectorColumnAccepts(len)
            THEN /\ tasks' = save_embed_success(tasks, worker[w].task, len, 1)
                 /\ worker' = [worker EXCEPT ![w].pc = "put"]
            ELSE /\ tasks' = tasks
                 /\ worker' = [worker EXCEPT ![w] = [@ EXCEPT !.pc = "fail", !.result = len]]
       ELSE /\ tasks' = tasks
            /\ worker' = [worker EXCEPT ![w].pc = "fail"]
  /\ UNCHANGED << planner_vars, progress, started, runs, call, run, kb_chunks, cmd, pc, cancelling, ended, seed, to_push, stops,
                  queue, unfinished >>

\* mutant: the chunk row and the task row are written in two commits, and the
\* failure comes between them
SaveUpsert_two_commits(w) ==
  /\ w[1] = "upsert"
  /\ worker[w].pc = "save"
  /\ \E ok \in BOOLEAN :
       IF ok /\ UpsertInputsPresent(tasks[worker[w].task])
       THEN /\ tasks' = save_upsert_success(tasks, kb_chunks, worker[w].task).tasks
            /\ kb_chunks' = save_upsert_success(tasks, kb_chunks, worker[w].task).kb_chunks
            /\ unfinished' = TaskDone("upsert")
            /\ progress' = log_progress_update(progress, worker[w].task, "upsert", "SUCCEEDED")
            /\ worker' = [worker EXCEPT ![w] = [pc |-> "get", task |-> 0, result |-> 0]]
       ELSE /\ worker' = [worker EXCEPT ![w].pc = "fail"]
            /\ kb_chunks' = IF UpsertInputsPresent(tasks[worker[w].task])
                            THEN upsert_chunk(kb_chunks, ChunkRow(tasks, worker[w].task))
                            ELSE kb_chunks
            /\ UNCHANGED << tasks, unfinished, progress >>
  /\ UNCHANGED << planner_vars, started, runs, call, run, cmd, pc, cancelling, ended, seed, to_push, stops, queue >>

\* save_upsert_success, then the dequeue is acknowledged; the transaction can
\* raise (ok = FALSE), which rolls it back and leads to the except branch
SaveUpsert(w) ==
  /\ w[1] = "upsert"
  /\ worker[w].pc = "save"
  /\ \E ok \in BOOLEAN :
       IF ok /\ UpsertInputsPresent(tasks[worker[w].task])
       THEN /\ tasks' = save_upsert_success(tasks, kb_chunks, worker[w].task).tasks
            /\ kb_chunks' = save_upsert_success(tasks, kb_chunks, worker[w].task).kb_chunks
            /\ unfinished' = TaskDone("upsert")
            /\ progress' = log_progress_update(progress, worker[w].task, "upsert", "SUCCEEDED")
            /\ worker' = [worker EXCEPT ![w] = [pc |-> "get", task |-> 0, result |-> 0]]
       ELSE /\ worker' = [worker EXCEPT ![w].pc = "fail"]
            /\ UNCHANGED << planner_vars, progress, runs, call, tasks, kb_chunks, unfinished >>
  /\ UNCHANGED << planner_vars, started, runs, call, run, cmd, pc, cancelling, ended, seed, to_push, stops, queue >>

\* await next_queue.put(task_id), then the dequeue is acknowledged
Forward(w) ==
  /\ w[1] \in {"llm", "embed"}
  /\ worker[w].pc = "put"
  /\ Put(NextStage(w[1]), worker[w].task)
  /\ progress' = log_progress_update(progress, worker[w].task, w[1], "SUCCEEDED")
  /\ unfinished' = [unfinished EXCEPT ![w[1]] = @ - 1, ![NextStage(w[1])] = @ + 1]
  /\ worker' = [worker EXCEPT ![w] = [pc |-> "get", task |-> 0, result |-> 0]]
  /\ UNCHANGED << planner_vars, started, runs, call, run, tasks, kb_chunks, cmd, pc, cancelling, ended, seed, to_push,
                  stops >>

\* the except branch: load_task_payload for the log (task_for_log stays None
\* when it raises), save_<stage>_failure, the progress update when task_for_log
\* is there, then the dequeue is acknowledged.  The save runs inside the
\* handler: when it raises (ok = FALSE) the finally clause still acknowledges
\* and the exception ends the worker task
SaveFailure(w) ==
  /\ worker[w].pc = "fail"
  /\ \E ok \in BOOLEAN, task_for_log \in BOOLEAN :
       IF ok
       THEN /\ tasks' = save_stage_failure(tasks, worker[w].task, w[1], StageError, 1)
            /\ progress' = IF task_for_log
                           THEN log_progress_update(progress, worker[w].task, w[1], "FAILED")
                           ELSE progress
            /\ worker' = [worker EXCEPT ![w] = [pc |-> "get", task |-> 0, result |-> 0]]
       ELSE /\ tasks' = tasks
            /\ progress' = progress
            /\ worker' = [worker EXCEPT ![w] = [pc |-> "raised", task |-> 0, result |-> 0]]
  /\ unfinished' = TaskDone(w[1])
  /\ UNCHANGED << planner_vars, started, runs, call, run, kb_chunks, cmd, pc, cancelling, ended, seed, to_push, stops,
                  queue >>

WorkerStep ==
  \E w \in WorkerIds :
    \/ WorkerStop(w)
    \/ StageStart(w)
    \/ Extract(w)
    \/ Embed(w)
    \/ SaveUpsert(w)
    \/ Forward(w)
    \/ SaveFailure(w)

Next ==
  \/ MarkRunStarted
  \/ QueueSeed
  \/ SeedPush
  \/ JoinLlm
  \/ JoinEmbed
  \/ JoinUpsert
  \/ StopPut
  \/ Gather
  \/ FinalizeRun
  \/ CancelRun
  \/ Interrupt
  \/ Crash
  \/ Resume(FALSE)
  \/ Resume(TRUE)
  \/ WorkerStep

Spec == Init /\ [][Next]_vars

\* the steps of the orchestrator's own task
OrchestratorStep ==
  \/ MarkRunStarted
  \/ QueueSeed
  \/ SeedPush
  \/ JoinLlm
  \/ JoinEmbed
  \/ JoinUpsert
  \/ StopPut
  \/ Gather
  \/ FinalizeRun
  \/ CancelRun

\* the steps of one worker task
WorkerStepOf(w) ==
  \/ WorkerStop(w)
  \/ StageStart(w)
  \/ Extract(w)
  \/ Embed(w)
  \/ SaveUpsert(w)
  \/ Forward(w)
  \/ SaveFailure(w)

\* the event loop runs every task that is ready: the orchestrator's task and
\* each worker task take their step when it stays possible; remote calls and
\* database calls come back.  Interrupts, kills and new commands are the
\* environment's and need not happen.
LiveSpec ==
  /\ Spec
  /\ WF_vars(OrchestratorStep)
  /\ \A w \in WorkerIds : WF_vars(WorkerStepOf(w))

\* in an execution of `resume` no stage call and no database operation fails:
\* no worker enters its except branch
CallsSucceed ==
  cmd.kind = "resume" => \A w \in WorkerIds : worker'[w].pc \notin {"fail", "raised"}

ResumeNext ==
  \/ MarkRunStarted
  \/ QueueSeed
  \/ SeedPush
  \/ JoinLlm
  \/ JoinEmbed
  \/ JoinUpsert
  \/ StopPut
  \/ Gather
  \/ FinalizeRun
  \/ CancelRun
  \/ Interrupt
  \/ Crash
  \/ Resume(FALSE)
  \/ Resume(TRUE)
  \/ \E w \in WorkerIds : WorkerStepOf(w) /\ CallsSucceed

\* the executions in which every stage of a `resume` succeeds, whatever
\* happened in the commands before it, under the event loop's fairness
ResumeSpec ==
  /\ Init
  /\ [][ResumeNext]_vars
  /\ WF_vars(OrchestratorStep)
  /\ \A w \in WorkerIds : WF_vars(WorkerStepOf(w) /\ CallsSucceed)

TypeOK ==
  /\ run.status \in RunStatus
  /\ \A i \in DOMAIN tasks :
       /\ tasks[i].llm_status \in StageStatus
       /\ tasks[i].embed_status \in StageStatus
       /\ tasks[i].upsert_status \in StageStatus
       /\ tasks[i].final_status \in FinalStatus
  /\ \A s \in Stages : unfinished[s] >= 0 /\ Len(queue[s]) <= Capacity(s)


\* ------------------------------------------------------- stage clients
\* A second specification follows each stage call into its client: one task
\* at a time is taken from the head of a stage queue and goes through
\* mark_<stage>_running, the client's request loop, and the worker's save; the
\* same plan can be run again.  The queues are the seed lists, no sentinel is
\* needed, and the workers' positions are not used there.

\* what one remote invocation can produce: a response whose body the client
\* then reads, an HTTPError with a status, or a URLError
HttpErrorStatuses == {400, 429, 503}

LlmBodies == {"valid", "not_json", "schema_invalid"}

EmbedBodies == {"vector", "short_vector", "empty"}

Responses(stage) ==
  {[kind |-> "ok", status |-> 200, body |-> b] :
      b \in IF stage = "llm" THEN LlmBodies ELSE EmbedBodies}
  \cup {[kind |-> "http_error", status |-> st, body |-> ""] : st \in HttpErrorStatuses}
  \cup {[kind |-> "url_error", status |-> 0, body |-> ""]}

\* mutant: every HTTP error status counts as retryable
Retryable_any_error(status) == status >= 400

\* retryable = status == 429 or 500 <= status < 600
Retryable(status) == status = 429 \/ (500 <= status /\ status < 600)

\* the body passes the client's checks: json.loads and model_validate for the
\* extraction, a non-empty list for the embedding
BodyAccepted(stage, body) ==
  IF stage = "llm" THEN body = "valid" ELSE body \in {"vector", "short_vector"}

\* the length of the embedding a body carries
BodyLen(body) ==
  CASE body = "vector"       -> EmbeddingDim
    [] body = "short_vector" -> EmbeddingDim - 1
    [] OTHER                 -> 0

\* mutant: a body that fails validation is retried like a network fault
ClientOutcome_retry_invalid(stage, attempt, request_retries, resp) ==
  CASE resp.kind = "ok" ->
         IF BodyAccepted(stage, resp.body) THEN "return"
         ELSE IF attempt >= request_retries THEN "raise" ELSE "retry"
    [] resp.kind = "http_error" ->
         IF ~Retryable(resp.status) \/ attempt >= request_retries THEN "raise" ELSE "retry"
    [] resp.kind = "url_error" ->
         IF attempt >= request_retries THEN "raise" ELSE "retry"

\* one iteration of the request loop, at index attempt: "return", "raise",
\* or "retry" (sleep and go to the next iteration)
ClientOutcome(stage, attempt, request_retries, resp) ==
  CASE resp.kind = "ok" ->
         IF BodyAccepted(stage, resp.body) THEN "return" ELSE "raise"
    [] resp.kind = "http_error" ->
         IF ~Retryable(resp.status) \/ attempt >= request_retries THEN "raise" ELSE "retry"
    [] resp.kind = "url_error" ->
         IF attempt >= request_retries THEN "raise" ELSE "retry"

\* str(exc) of the exception the client raises for a response
ErrorText(stage, resp) ==
  CASE resp.kind = "http_error" -> "HTTP Error"
    [] resp.kind = "url_error"  -> "urlopen error"
    [] OTHER -> IF stage = "llm" THEN "LLM structured output validation failed"
                ELSE "Invalid embedding response payload"

\* the variables of the orchestrator, which stay as they are between commands
pipeline == << cmd, pc, cancelling, ended, to_push, stops, unfinished, worker,
               progress, started >>

\* the call record when no call has been made yet
IdleCall(request_retries) ==
  [ pc |-> "none", stage |-> "none", task |-> 0, request_retries |-> request_retries,
    attempt |-> 0, calls |-> 0, responses |-> <<>> ]

SeqInit ==
  \E n \in 1..MaxTasks, r \in 0..MaxRetries :
    /\ run = create_run_from_plan(n).run
    /\ tasks = create_run_from_plan(n).tasks
    /\ kb_chunks = EmptyBag
    /\ runs = 1
    /\ call = IdleCall(r)
    /\ chunked = NoChunking
    /\ planned = NoPlanning
    /\ cmd = [kind |-> "run", failed_only |-> FALSE, found_completed |-> FALSE]
    /\ pc = "idle"
    /\ cancelling = FALSE
    /\ ended = "none"
    /\ seed = EmptySeed
    /\ to_push = EmptySeed
    /\ stops = <<>>
    /\ queue = EmptyQueues
    /\ unfinished = NoneUnfinished
    /\ worker = NoWorkers
    /\ progress = NoProgress
    /\ started = {}

\* an execution (run, or a later resume) begins in a new process:
\* mark_run_started, then the seed lists go to the stage queues
SeqMarkStarted ==
  /\ call.pc = "none"
  /\ run.status # "RUNNING"
  /\ run' = mark_run_started(run)
  /\ seed' = queue_seed(tasks, FALSE)
  /\ queue' = [s \in Stages |-> CASE s = "llm"    -> seed'.llm_task_ids
                                 [] s = "embed"  -> seed'.embed_task_ids
                                 [] s = "upsert" -> seed'.upsert_task_ids]
  /\ call' = IdleCall(call.request_retries)
  /\ UNCHANGED << tasks, kb_chunks, runs, pipeline, planner_vars >>

\* the worker of a calling stage takes the head of its queue, marks the stage
\* running and enters the client
SeqStageStart(stage) ==
  /\ call.pc = "none"
  /\ run.status = "RUNNING"
  /\ queue[stage] # <<>>
  /\ queue' = [queue EXCEPT ![stage] = Tail(@)]
  /\ tasks' = mark_stage_running(tasks, Head(queue[stage]), stage)
  /\ call' = [ IdleCall(call.request_retries) EXCEPT
                 !.pc = "request", !.stage = stage, !.task = Head(queue[stage]) ]
  /\ UNCHANGED << run, kb_chunks, runs, seed, pipeline, planner_vars >>

\* mutant: a loop without range and without budget: a retryable failure is
\* always retried
SeqRequest_no_budget ==
  /\ call.pc = "request"
  /\ call.calls <= call.request_retries + 1
  /\ \E resp \in Responses(call.stage) :
       LET out == IF resp.kind = "ok"
                  THEN (IF BodyAccepted(call.stage, resp.body) THEN "return" ELSE "raise")
                  ELSE IF resp.kind = "http_error" /\ ~Retryable(resp.status)
                  THEN "raise" ELSE "retry"
           c   == [call EXCEPT !.calls = @ + 1, !.responses = Append(@, resp)]
       IN  call' = CASE out = "return" -> [c EXCEPT !.pc = "returned"]
                     [] out = "raise"  -> [c EXCEPT !.pc = "raised"]
                     [] out = "retry"  -> [c EXCEPT !.attempt = @ + 1]
  /\ UNCHANGED << run, tasks, kb_chunks, runs, seed, queue, pipeline, planner_vars >>

\* one iteration of `for attempt in range(request_retries + 1)`: one remote
\* invocation and what the client does with its response
SeqRequest ==
  /\ call.pc = "request"
  /\ \E resp \in Responses(call.stage) :
       LET out == ClientOutcome(call.stage, call.attempt, call.request_retries, resp)
           c   == [call EXCEPT !.calls = @ + 1, !.responses = Append(@, resp)]
       IN  call' = CASE out = "return" -> [c EXCEPT !.pc = "returned"]
                     [] out = "raise"  -> [c EXCEPT !.pc = "raised"]
                     [] out = "retry"  ->
                          IF call.attempt + 1 <= call.request_retries
                          THEN [c EXCEPT !.attempt = @ + 1]
                          ELSE [c EXCEPT !.pc = "raised"]
  /\ UNCHANGED << run, tasks, kb_chunks, runs, seed, queue, pipeline, planner_vars >>

\* the last response of the call
LastResponse == call.responses[Len(call.responses)]

\* the client returned with attempts_used = attempt + 1: save_<stage>_success;
\* a vector the column refuses makes the save raise
SeqSaveSuccess ==
  /\ call.pc = "returned"
  /\ IF call.stage = "llm"
     THEN /\ tasks' = save_llm_success(tasks, call.task, runs, call.attempt + 1)
          /\ call' = [call EXCEPT !.pc = "none"]
          /\ queue' = [queue EXCEPT !["embed"] = Append(@, call.task)]
     ELSE IF VectorColumnAccepts(BodyLen(LastResponse.body))
     THEN /\ tasks' = save_embed_success(tasks, call.task, BodyLen(LastResponse.body),
                                         call.attempt + 1)
          /\ call' = [call EXCEPT !.pc = "none"]
          /\ queue' = [queue EXCEPT !["upsert"] = Append(@, call.task)]
     ELSE /\ tasks' = tasks
          /\ call' = [call EXCEPT !.pc = "raised"]
          /\ queue' = queue
  /\ UNCHANGED << run, kb_chunks, runs, seed, pipeline, planner_vars >>

\* the worker's except branch: save_<stage>_failure(error = str(exc), attempts_used = 1)
SeqSaveFailure ==
  /\ call.pc = "raised"
  /\ tasks' = save_stage_failure(tasks, call.task, call.stage,
                                 ErrorText(call.stage, LastResponse), 1)
  /\ call' = [call EXCEPT !.pc = "none"]
  /\ UNCHANGED << run, kb_chunks, runs, seed, queue, pipeline, planner_vars >>

\* the upsert stage of task i: mark_upsert_running, then save_upsert_success,
\* or save_upsert_failure when the transaction raises
SeqUpsert ==
  /\ call.pc = "none"
  /\ run.status = "RUNNING"
  /\ queue["upsert"] # <<>>
  /\ queue' = [queue EXCEPT !["upsert"] = Tail(@)]
  /\ LET i == Head(queue["upsert"])
         running == mark_stage_running(tasks, i, "upsert")
     IN  \E ok \in BOOLEAN :
           IF ok /\ UpsertInputsPresent(tasks[i])
           THEN /\ tasks' = save_upsert_success(running, kb_chunks, i).tasks
                /\ kb_chunks' = save_upsert_success(running, kb_chunks, i).kb_chunks
           ELSE /\ tasks' = save_stage_failure(running, i, "upsert", StageError, 1)
                /\ kb_chunks' = kb_chunks
  /\ UNCHANGED << run, runs, call, seed, pipeline, planner_vars >>

\* every queue is drained: the execution ends with finalize_run
SeqFinalize ==
  /\ call.pc = "none"
  /\ run.status = "RUNNING"
  /\ queue = EmptyQueues
  /\ run' = finalize_run(run, tasks)
  /\ UNCHANGED << tasks, kb_chunks, runs, call, seed, queue, pipeline, planner_vars >>

\* `run` on the same plan again: a new run row and new task rows; kb_chunks
\* is the same table
SeqNewRun ==
  /\ call.pc = "none"
  /\ run.status # "RUNNING"
  /\ runs < MaxRuns
  /\ runs' = runs + 1
  /\ run' = create_run_from_plan(Cardinality(DOMAIN tasks)).run
  /\ tasks' = create_run_from_plan(Cardinality(DOMAIN tasks)).tasks
  /\ call' = IdleCall(call.request_retries)
  /\ seed' = EmptySeed
  /\ UNCHANGED << kb_chunks, queue, pipeline, planner_vars >>

SeqNext ==
  \/ SeqMarkStarted
  \/ \E stage \in {"llm", "embed"} : SeqStageStart(stage)
  \/ SeqRequest
  \/ SeqSaveSuccess
  \/ SeqSaveFailure
  \/ SeqUpsert
  \/ SeqFinalize
  \/ SeqNewRun

SpecSeq == SeqInit /\ [][SeqNext]_vars

\* ---------------------------------------------------------------- chunking
\* A document is its token count D; a text decoded from tokens[lo : hi] is the
\* record [lo, hi].

Min(a, b) == IF a <= b THEN a ELSE b

\* tokens[lo : hi] of a list of n tokens, for lo >= 0: a negative hi counts
\* from the end, and both ends are clipped to the list
Slice(lo, hi, n) ==
  [ lo |-> Min(lo, n),
    hi |-> IF hi < 0 THEN Max(hi + n, 0) ELSE Min(hi, n) ]

\* the slice holds no token
EmptySlice(w) == w.lo >= w.hi

RECURSIVE ChunkLoop_no_break(_, _, _, _, _)
\* mutant: the loop has no `if start + chunk_size >= len(tokens): break`
ChunkLoop_no_break(D, chunk_size, step, start, chunks) ==
  IF start >= D THEN chunks
  ELSE IF EmptySlice(Slice(start, start + chunk_size, D)) THEN chunks
  ELSE ChunkLoop_no_break(D, chunk_size, step, start + step,
                          Append(chunks, Slice(start, start + chunk_size, D)))

RECURSIVE ChunkLoop_step_window(_, _, _, _, _)
\* mutant: the window is as long as the step
ChunkLoop_step_window(D, chunk_size, step, start, chunks) ==
  IF start >= D THEN chunks
  ELSE IF EmptySlice(Slice(start, start + step, D)) THEN chunks
  ELSE IF start + chunk_size >= D
       THEN Append(chunks, Slice(start, start + step, D))
       ELSE ChunkLoop_step_window(D, chunk_size, step, start + step,
                                  Append(chunks, Slice(start, start + step, D)))

RECURSIVE ChunkLoop_step_chunk_size(_, _, _, _, _)
\* mutant: the loop advances by chunk_size
ChunkLoop_step_chunk_size(D, chunk_size, step, start, chunks) ==
  IF start >= D THEN chunks
  ELSE IF EmptySlice(Slice(start, start + chunk_size, D)) THEN chunks
  ELSE IF start + chunk_size >= D
       THEN Append(chunks, Slice(start, start + chunk_size, D))
       ELSE ChunkLoop_step_chunk_size(D, chunk_size, step, start + chunk_size,
                                      Append(chunks, Slice(start, start + chunk_size, D)))

RECURSIVE ChunkLoop(_, _, _, _, _)
\* for start in range(0, len(tokens), step), from `start` on
ChunkLoop(D, chunk_size, step, start, chunks) ==
  IF start >= D THEN chunks
  ELSE IF EmptySlice(Slice(start, start + chunk_size, D)) THEN chunks
  ELSE IF start + chunk_size >= D
       THEN Append(chunks, Slice(start, start + chunk_size, D))
       ELSE ChunkLoop(D, chunk_size, step, start + step,
                      Append(chunks, Slice(start, start + chunk_size, D)))

\* chunk_tokens(enc, text, chunk_size, overlap) for a text of D tokens: it
\* raises ValueError, or returns the list of chunks
chunk_tokens(D, chunk_size, overlap) ==
  IF overlap >= chunk_size THEN [raised |-> TRUE, chunks |-> <<>>]
  ELSE IF D = 0 THEN [raised |-> FALSE, chunks |-> <<>>]
  ELSE [raised |-> FALSE, chunks |-> ChunkLoop(D, chunk_size, chunk_size - overlap, 0, <<>>)]

\* the state every other variable has while only planning is followed
ExecutionIdle ==
  /\ run = create_run_from_plan(0).run
  /\ tasks = create_run_from_plan(0).tasks
  /\ kb_chunks = EmptyBag
  /\ runs = 1
  /\ call = NoCall
  /\ cmd = [kind |-> "run", failed_only |-> FALSE, found_completed |-> FALSE]
  /\ pc = "idle"
  /\ cancelling = FALSE
  /\ ended = "none"
  /\ seed = EmptySeed
  /\ to_push = EmptySeed
  /\ stops = <<>>
  /\ queue = EmptyQueues
  /\ unfinished = NoneUnfinished
  /\ worker = NoWorkers
  /\ progress = NoProgress
  /\ started = {}

execution_vars == << run, tasks, kb_chunks, cmd, pc, cancelling, ended, seed, to_push,
                     stops, queue, unfinished, worker, runs, call, progress, started >>

\* chunk_tokens is about to be called on a document of D tokens; chunk_size and
\* overlap are any integers the command line takes
ChunkInit ==
  /\ ExecutionIdle
  /\ planned = NoPlanning
  /\ \E D \in 0..MaxDocTokens, chunk_size \in -1..MaxChunkSize, overlap \in -1..MaxChunkSize :
       chunked = [ pc |-> "call", tokens |-> D, chunk_size |-> chunk_size,
                   overlap |-> overlap, chunks |-> <<>> ]

\* the call returns its chunks or raises
ChunkTokens ==
  /\ chunked.pc = "call"
  /\ LET res == chunk_tokens(chunked.tokens, chunked.chunk_size, chunked.overlap)
     IN  chunked' = [chunked EXCEPT !.pc = IF res.raised THEN "raised" ELSE "returned",
                                    !.chunks = res.chunks]
  /\ UNCHANGED << execution_vars, planned >>

ChunkNext == ChunkTokens

ChunkSpec == ChunkInit /\ [][ChunkNext]_vars

\* ---------------------------------------------------------------- planning
\* A manifest is the list of its sources, each with a source_id and the token
\* count of its text file; build_kb.py writes one entry per curated source, so
\* the ids of a manifest are distinct.

\* sha256 of a value, as a value that is equal exactly for equal arguments
Sha256(x) == [sha256_of |-> x]

\* the text of a whole document of D tokens
DocText(D) == [lo |-> 0, hi |-> D]

RECURSIVE SetOrder(_, _)
\* the iteration order of a set of ids under a hash seed
SetOrder(S, hash_seed) ==
  IF S = {} THEN <<>>
  ELSE LET x == IF hash_seed = 1
                THEN CHOOSE y \in S : \A z \in S : y <= z
                ELSE CHOOSE y \in S : \A z \in S : y >= z
       IN  <<x>> \o SetOrder(S \ {x}, hash_seed)

\* mutant: the sources are taken by iterating over the filter set
ManifestSources_set_order(manifest, source_filter, hash_seed) ==
  IF source_filter # {}
  THEN LET present == {manifest[k].source_id : k \in 1..Len(manifest)} \cap source_filter
           order   == SetOrder(present, hash_seed)
       IN  [ j \in 1..Len(order) |->
               manifest[CHOOSE k \in 1..Len(manifest) : manifest[k].source_id = order[j]] ]
  ELSE manifest

\* manifest_sources: the manifest's list, filtered by membership when the
\* filter is a non-empty set; the hash seed of the process plays no part
ManifestSources(manifest, source_filter, hash_seed) ==
  IF source_filter # {}
  THEN LET Wanted(item) == item.source_id \in source_filter
       IN  SelectSeq(manifest, Wanted)
  ELSE manifest

\* range(top, bottom + 1) without idx, as a sequence in increasing order
RECURSIVE NeighborRange(_, _, _)
NeighborRange(top, bottom, idx) ==
  IF top > bottom THEN <<>>
  ELSE IF top = idx THEN NeighborRange(top + 1, bottom, idx)
  ELSE <<top>> \o NeighborRange(top + 1, bottom, idx)

\* "\n\n".join of f"[Chunk {n + 1}/{len(chunks)}]\n{chunks[n]}" over ns; the
\* chunk with Python index n is chunks[n + 1]
JoinNeighbors(chunks, ns) ==
  [ j \in 1..Len(ns) |->
      [label |-> ns[j] + 1, of |-> Len(chunks), text |-> chunks[ns[j] + 1]] ]

\* mutant: every chunk of a source gets chunk_index 0
TaskPlan_index_zero(item, idx, chunks, full_doc_threshold_tokens) ==
  [ source_id            |-> item.source_id,
    chunk_index          |-> 0,
    chunk_count          |-> Len(chunks),
    raw_text             |-> chunks[idx + 1],
    raw_text_sha256      |-> Sha256(chunks[idx + 1]),
    doc_token_count      |-> item.tokens,
    context_mode         |-> "FULL_DOC",
    context_window_start |-> 0,
    context_window_end   |-> Len(chunks) - 1,
    context_text         |-> << [label |-> 0, of |-> 0, text |-> DocText(item.tokens)] >> ]

\* mutant: the window reaches two chunks to each side
TaskPlan_window_two(item, idx, chunks, full_doc_threshold_tokens) ==
  LET top    == Max(0, idx - 2)
      bottom == Min(Len(chunks) - 1, idx + 2)
      full   == item.tokens <= full_doc_threshold_tokens
  IN  [ source_id            |-> item.source_id,
        chunk_index          |-> idx,
        chunk_count          |-> Len(chunks),
        raw_text             |-> chunks[idx + 1],
        raw_text_sha256      |-> Sha256(chunks[idx + 1]),
        doc_token_count      |-> item.tokens,
        context_mode         |-> IF full THEN "FULL_DOC" ELSE "SURROUNDING_CHUNKS",
        context_window_start |-> IF full THEN 0 ELSE top,
        context_window_end   |-> IF full THEN Len(chunks) - 1 ELSE bottom,
        context_text         |->
          IF full THEN << [label |-> 0, of |-> 0, text |-> DocText(item.tokens)] >>
          ELSE JoinNeighbors(chunks, NeighborRange(top, bottom, idx)) ]

\* mutant: the context mode is chosen by the chunk's token count
TaskPlan_mode_by_chunk(item, idx, chunks, full_doc_threshold_tokens) ==
  LET top    == Max(0, idx - 3)
      bottom == Min(Len(chunks) - 1, idx + 3)
      full   == chunks[idx + 1].hi - chunks[idx + 1].lo <= full_doc_threshold_tokens
  IN  [ source_id            |-> item.source_id,
        chunk_index          |-> idx,
        chunk_count          |-> Len(chunks),
        raw_text             |-> chunks[idx + 1],
        raw_text_sha256      |-> Sha256(chunks[idx + 1]),
        doc_token_count      |-> item.tokens,
        context_mode         |-> IF full THEN "FULL_DOC" ELSE "SURROUNDING_CHUNKS",
        context_window_start |-> IF full THEN 0 ELSE top,
        context_window_end   |-> IF full THEN Len(chunks) - 1 ELSE bottom,
        context_text         |->
          IF full THEN << [label |-> 0, of |-> 0, text |-> DocText(item.tokens)] >>
          ELSE JoinNeighbors(chunks, NeighborRange(top, bottom, idx)) ]

\* the ChunkTaskPlan of the chunk with index idx (from 0) of a source
TaskPlan(item, idx, chunks, full_doc_threshold_tokens) ==
  LET top    == Max(0, idx - 3)
      bottom == Min(Len(chunks) - 1, idx + 3)
      full   == item.tokens <= full_doc_threshold_tokens
  IN  [ source_id            |-> item.source_id,
        chunk_index          |-> idx,
        chunk_count          |-> Len(chunks),
        raw_text             |-> chunks[idx + 1],
        raw_text_sha256      |-> Sha256(chunks[idx + 1]),
        doc_token_count      |-> item.tokens,
        context_mode         |-> IF full THEN "FULL_DOC" ELSE "SURROUNDING_CHUNKS",
        context_window_start |-> IF full THEN 0 ELSE top,
        context_window_end   |-> IF full THEN Len(chunks) - 1 ELSE bottom,
        context_text         |->
          IF full THEN << [label |-> 0, of |-> 0, text |-> DocText(item.tokens)] >>
          ELSE JoinNeighbors(chunks, NeighborRange(top, bottom, idx)) ]

\* max_chunks is given and the plan has reached it
CapReached(task_plans, max_chunks) ==
  max_chunks.given /\ Len(task_plans) >= max_chunks.m

RECURSIVE ChunkTaskLoop_cap_per_source(_, _, _, _, _, _)
\* mutant: the cap counts the tasks of the current source only
ChunkTaskLoop_cap_per_source(item, chunks, idx, task_plans, full_doc_threshold_tokens, max_chunks) ==
  IF idx >= Len(chunks) THEN task_plans
  ELSE IF max_chunks.given /\ idx >= max_chunks.m THEN task_plans
  ELSE ChunkTaskLoop_cap_per_source(item, chunks, idx + 1,
         Append(task_plans, TaskPlan(item, idx, chunks, full_doc_threshold_tokens)),
         full_doc_threshold_tokens, max_chunks)

RECURSIVE ChunkTaskLoop(_, _, _, _, _, _)
\* for idx, raw_chunk in enumerate(chunks), from idx on
ChunkTaskLoop(item, chunks, idx, task_plans, full_doc_threshold_tokens, max_chunks) ==
  IF idx >= Len(chunks) THEN task_plans
  ELSE IF CapReached(task_plans, max_chunks) THEN task_plans
  ELSE ChunkTaskLoop(item, chunks, idx + 1,
         Append(task_plans, TaskPlan(item, idx, chunks, full_doc_threshold_tokens)),
         full_doc_threshold_tokens, max_chunks)

\* the SourcePlan of a manifest entry
SourcePlan(item) ==
  [ source_id      |-> item.source_id,
    content_sha256 |-> Sha256(DocText(item.tokens)),
    token_count    |-> item.tokens ]

RECURSIVE SourceLoop(_, _, _, _, _)
\* for item in manifest_sources, from position k on; cfg holds chunk_size,
\* overlap, full_doc_threshold_tokens and max_chunks
SourceLoop(manifest_sources, k, source_plans, task_plans, cfg) ==
  IF k > Len(manifest_sources)
  THEN [raised |-> FALSE, sources |-> source_plans, tasks |-> task_plans]
  ELSE LET item    == manifest_sources[k]
           res     == chunk_tokens(item.tokens, cfg.chunk_size, cfg.overlap)
           sources == Append(source_plans, SourcePlan(item))
           plans   == ChunkTaskLoop(item, res.chunks, 0, task_plans,
                                    cfg.full_doc_threshold_tokens, cfg.max_chunks)
       IN  IF res.raised THEN [raised |-> TRUE, sources |-> <<>>, tasks |-> <<>>]
           ELSE IF CapReached(plans, cfg.max_chunks)
                THEN [raised |-> FALSE, sources |-> sources, tasks |-> plans]
                ELSE SourceLoop(manifest_sources, k + 1, sources, plans, cfg)

\* plan_from_kb: the PlanningResult, or the error of chunk_tokens
plan_from_kb(manifest, source_filter, cfg, hash_seed) ==
  LET res == SourceLoop(ManifestSources(manifest, source_filter, hash_seed), 1, <<>>, <<>>, cfg)
  IN  [ raised          |-> res.raised,
        manifest_sha256 |-> Sha256(manifest),
        sources         |-> res.sources,
        tasks           |-> res.tasks ]

\* the token counts the documents of the manifests have
DocSizes == {0, 1, MaxDocTokens \div 2, MaxDocTokens}

SourceIds == 1..MaxSources

ManifestItems == [source_id : SourceIds, tokens : DocSizes]

Manifests ==
  { m \in UNION { [1..n -> ManifestItems] : n \in 0..MaxSources } :
      \A j, k \in DOMAIN m : j # k => m[j].source_id # m[k].source_id }

\* the configurations planning is followed with: 0 <= overlap < chunk_size
PlanConfigs ==
  [ chunk_size : 2..MaxChunkSize,
    overlap : 0..1,
    full_doc_threshold_tokens : {0, MaxDocTokens \div 2, MaxDocTokens},
    max_chunks : {[given |-> FALSE, m |-> 0]} \cup {[given |-> TRUE, m |-> m] : m \in 0..MaxCap} ]

\* what kb_sources holds before the first run: nothing, or the row an earlier
\* ingest left for a longer version of the first document
EarlierSources ==
  { {}, {[ source_id      |-> 1,
           content_sha256 |-> Sha256(DocText(MaxDocTokens + 1)),
           token_count    |-> MaxDocTokens + 1 ]} }

\* the file on disk and the command's arguments; nothing is planned yet
PlanInit ==
  /\ ExecutionIdle
  /\ chunked = NoChunking
  /\ \E manifest \in Manifests, source_filter \in SUBSET SourceIds, cfg \in PlanConfigs,
        earlier \in EarlierSources :
       planned = [ pc |-> "plan", manifest |-> manifest, source_filter |-> source_filter,
                   cfg |-> cfg, results |-> <<>>,
                   ingest_runs |-> {}, kb_sources |-> earlier, task_rows |-> EmptyBag ]

\* a process builds the plan: orchestrator.build_plan -> plan_from_kb, with
\* whatever hash seed the process has
BuildPlan ==
  /\ planned.pc = "plan"
  /\ Len(planned.results) < MaxRuns
  /\ \E hash_seed \in 1..2 :
       planned' = [planned EXCEPT
         !.pc = "create",
         !.results = Append(@, plan_from_kb(planned.manifest, planned.source_filter,
                                            planned.cfg, hash_seed))]
  /\ UNCHANGED << execution_vars, chunked >>

\* the kb_ingest_tasks rows create_run_from_plan inserts for the run with
\* id run_id: (run_id, source_id, chunk_index) and the four statuses
TaskRows(run_id, plan_tasks) ==
  [ j \in 1..Len(plan_tasks) |->
      [ run_id |-> run_id, source_id |-> plan_tasks[j].source_id,
        chunk_index |-> plan_tasks[j].chunk_index,
        llm_status |-> "PENDING", embed_status |-> "PENDING",
        upsert_status |-> "PENDING", final_status |-> "PENDING" ] ]

RECURSIVE SeqToBag(_)
SeqToBag(q) == IF q = <<>> THEN EmptyBag ELSE SetToBag({Head(q)}) (+) SeqToBag(Tail(q))

\* kb_ingest_tasks_run_source_chunk_uidx lets the rows in
UniqueRows(rows) == \A r \in BagToSet(rows) : CopiesIn(r, rows) = 1

\* the three tables create_run_from_plan writes
Store(p) ==
  [ ingest_runs |-> p.ingest_runs, kb_sources |-> p.kb_sources, task_rows |-> p.task_rows ]

\* the statements of create_run_from_plan in the order it executes them
Statements(run_id, plan) ==
  << [ table |-> "kb_ingest_runs",
       row   |-> [id |-> run_id, status |-> "PENDING", total_chunks |-> Len(plan.tasks)] ] >>
  \o [ j \in 1..Len(plan.sources) |-> [table |-> "kb_sources", row |-> plan.sources[j]] ]
  \o [ j \in 1..Len(plan.tasks) |->
         [table |-> "kb_ingest_tasks", row |-> TaskRows(run_id, plan.tasks)[j]] ]

\* one statement on the tables: an insert, or for kb_sources
\* INSERT ... ON CONFLICT (source_id) DO UPDATE
Execute(store, st) ==
  CASE st.table = "kb_ingest_runs" ->
         [store EXCEPT !.ingest_runs = @ \cup {st.row}]
    [] st.table = "kb_sources" ->
         [store EXCEPT !.kb_sources =
            {s \in @ : s.source_id # st.row.source_id} \cup {st.row}]
    [] st.table = "kb_ingest_tasks" ->
         [store EXCEPT !.task_rows = @ (+) SetToBag({st.row})]

RECURSIVE ExecuteUpTo(_, _, _)
\* the tables as the transaction sees them after its first k statements
ExecuteUpTo(store, statements, k) ==
  IF k = 0 THEN store
  ELSE Execute(ExecuteUpTo(store, statements, k - 1), statements[k])

\* mutant: the statements that ran before the failure stay
Rollback_keeps_partial(before, partial) == partial

\* leaving `with conn.transaction()` by an exception
Rollback(before, partial) == before

\* the tables after the transaction of create_run_from_plan; fail_at = 0 when
\* nothing fails, else the statement that raises (the commit after the last)
create_run_transaction(store, statements, fail_at) ==
  LET all == ExecuteUpTo(store, statements, Len(statements))
  IN  IF fail_at # 0
      THEN Rollback(store, ExecuteUpTo(store, statements, fail_at - 1))
      ELSE IF ~UniqueRows(all.task_rows)
           THEN Rollback(store, all)
           ELSE all

\* create_run_from_plan with the plan just built, under a fresh run id: one
\* transaction, which a failing statement or the unique constraint aborts as
\* a whole; a plan that raised never gets here
CreateRunFromPlan ==
  /\ planned.pc = "create"
  /\ LET k          == Len(planned.results)
         statements == Statements(k, planned.results[k])
     IN  \E fail_at \in 0..(Len(statements) + 1) :
           LET store == IF planned.results[k].raised THEN Store(planned)
                        ELSE create_run_transaction(Store(planned), statements, fail_at)
           IN  planned' = [planned EXCEPT
                 !.pc = "plan",
                 !.ingest_runs = store.ingest_runs,
                 !.kb_sources = store.kb_sources,
                 !.task_rows = store.task_rows]
  /\ UNCHANGED << execution_vars, chunked >>

PlanNext ==
  \/ BuildPlan
  \/ CreateRunFromPlan

PlanSpec == PlanInit /\ [][PlanNext]_vars

\* ------------------------------------------------------------------ claims
Terminal == {"COMPLETED", "PARTIAL_FAILURE", "FAILED", "CANCELLED"}

Range(q) == {q[k] : k \in 1..Len(q)}

\* the ids a seed holds
Seeded(sd) == Range(sd.llm_task_ids) \cup Range(sd.embed_task_ids) \cup Range(sd.upsert_task_ids)

\* the number of positions of q that hold id
Occurrences(q, id) == Cardinality({k \in 1..Len(q) : q[k] = id})

\* a row's earliest stage that is not SUCCEEDED, "none" when all three are
EarliestOpenStage(row) ==
  IF row.llm_status # "SUCCEEDED" THEN "llm"
  ELSE IF row.embed_status # "SUCCEEDED" THEN "embed"
  ELSE IF row.upsert_status # "SUCCEEDED" THEN "upsert"
  ELSE "none"

\* the worker holds a task id (it is between stage start and stage end)
Holding(w) == worker[w].pc \in {"call", "save", "put", "fail"}

\* C1: in every reachable state, also between mark_<stage>_running and the
\* save of a stage and across run, resume and retry-failed, a task's
\* final_status is COMPLETED exactly when its upsert_status is SUCCEEDED.
C1_FinalCompletedIffUpsertSucceeded ==
  \A i \in DOMAIN tasks :
    (tasks[i].final_status = "COMPLETED") <=> (tasks[i].upsert_status = "SUCCEEDED")

\* a later execution is in the middle of a stage of one task while another
\* task is COMPLETED
C1_Witness ==
  /\ cmd.kind # "run"
  /\ \E w \in WorkerIds :
       /\ Holding(w)
       /\ StatusOf(tasks[worker[w].task], w[1]) = "RUNNING"
  /\ \E i \in DOMAIN tasks : tasks[i].final_status = "COMPLETED"

\* C2: the embedding service is called for a task only once its llm_status is
\* stored SUCCEEDED, the upsert is performed only once its embed_status is
\* stored SUCCEEDED, and a worker puts an id on the next queue only after its
\* own stage's success is stored.
C2_StagesSequential ==
  /\ \A w \in WorkerIds :
       /\ (w[1] = "embed" /\ Holding(w)) => tasks[worker[w].task].llm_status = "SUCCEEDED"
       /\ (w[1] = "upsert" /\ Holding(w)) => tasks[worker[w].task].embed_status = "SUCCEEDED"
       /\ worker[w].pc = "put" => StatusOf(tasks[worker[w].task], w[1]) = "SUCCEEDED"
  /\ \A id \in Range(queue["embed"]) \ {STOP} : tasks[id].llm_status = "SUCCEEDED"
  /\ \A id \in Range(queue["upsert"]) \ {STOP} : tasks[id].embed_status = "SUCCEEDED"

\* the embedding call of one task is in flight while the next task, forwarded
\* by the extraction worker, waits on embed_queue
C2_Witness ==
  /\ \E w \in WorkerIds : w[1] = "embed" /\ worker[w].pc = "call"
  /\ queue["embed"] # <<>>
  /\ seed.embed_task_ids = <<>>

\* C3: embed_status = SUCCEEDED implies llm_status = SUCCEEDED and a stored
\* embedding of exactly EmbeddingDim components, whatever length the embedding
\* service answered with.
C3_EmbedSucceededHasFullVector ==
  \A i \in DOMAIN tasks :
    tasks[i].embed_status = "SUCCEEDED" =>
      /\ tasks[i].llm_status = "SUCCEEDED"
      /\ tasks[i].embedding = EmbeddingDim

\* the store has refused a vector of another length for one task while another
\* task's embedding is stored
C3_Witness ==
  /\ \E w \in WorkerIds :
       w[1] = "embed" /\ worker[w].pc = "fail" /\ worker[w].result = EmbeddingDim - 1
  /\ \E i \in DOMAIN tasks : tasks[i].embed_status = "SUCCEEDED"

\* C4: upsert_status = SUCCEEDED implies embed_status = SUCCEEDED and a
\* kb_chunks row with the task's key.
C4_UpsertSucceededHasChunk ==
  \A i \in DOMAIN tasks :
    tasks[i].upsert_status = "SUCCEEDED" =>
      /\ tasks[i].embed_status = "SUCCEEDED"
      /\ RowsWithKey(kb_chunks, i) # {}

C4_Witness ==
  /\ \E i \in DOMAIN tasks : tasks[i].upsert_status = "SUCCEEDED"
  /\ \E i \in DOMAIN tasks : tasks[i].upsert_status = "FAILED"

\* C5: final_status = FAILED implies that one of the three stage statuses is
\* FAILED, also while a resume or retry-failed execution re-runs a stage.
C5_FinalFailedHasFailedStage ==
  \A i \in DOMAIN tasks :
    tasks[i].final_status = "FAILED" =>
      \E s \in Stages : StatusOf(tasks[i], s) = "FAILED"

\* C6: a stage status that is SUCCEEDED stays SUCCEEDED in every later step of
\* any execution, and the stage is not started again for the task: no id
\* waits on, or is about to be put on, the queue of a stage it has succeeded.
C6_SucceededStageIsFinal ==
  /\ [][ \A i \in DOMAIN tasks : \A s \in Stages :
           StatusOf(tasks[i], s) = "SUCCEEDED" => StatusOf(tasks'[i], s) = "SUCCEEDED" ]_vars
  /\ [] ( /\ \A s \in Stages : \A id \in Range(queue[s]) \ {STOP} :
               StatusOf(tasks[id], s) # "SUCCEEDED"
          /\ \A id \in Range(to_push.llm_task_ids) : tasks[id].llm_status # "SUCCEEDED"
          /\ \A id \in Range(to_push.embed_task_ids) : tasks[id].embed_status # "SUCCEEDED"
          /\ \A id \in Range(to_push.upsert_task_ids) : tasks[id].upsert_status # "SUCCEEDED" )

\* a later execution runs the embedding stage of a task whose extraction
\* succeeded in an earlier one
C6_Witness ==
  /\ cmd.kind # "run"
  /\ seed.embed_task_ids # <<>>
  /\ \E w \in WorkerIds :
       /\ w[1] = "embed"
       /\ worker[w].pc = "call"
       /\ worker[w].task \in Range(seed.embed_task_ids)

\* C7: queue_seed(failed_only = FALSE) puts every task that is not COMPLETED in
\* exactly one list, that of its earliest stage that is not SUCCEEDED; a
\* COMPLETED task is in no list; no id occurs twice.
C7_QueueSeedPartitions ==
  LET sd == queue_seed(tasks, FALSE)
      N(i) == Occurrences(sd.llm_task_ids, i) + Occurrences(sd.embed_task_ids, i)
                + Occurrences(sd.upsert_task_ids, i)
  IN  \A i \in DOMAIN tasks :
        IF tasks[i].final_status = "COMPLETED"
        THEN N(i) = 0
        ELSE /\ N(i) = 1
             /\ EarliestOpenStage(tasks[i]) = "llm" => i \in Range(sd.llm_task_ids)
             /\ EarliestOpenStage(tasks[i]) = "embed" => i \in Range(sd.embed_task_ids)
             /\ EarliestOpenStage(tasks[i]) = "upsert" => i \in Range(sd.upsert_task_ids)
             /\ EarliestOpenStage(tasks[i]) # "none"

\* a resume has just seeded one task for extraction and one for embedding
C7_Witness ==
  /\ cmd.kind = "resume"
  /\ pc = "seed_push"
  /\ seed = queue_seed(tasks, FALSE)
  /\ seed.llm_task_ids # <<>>
  /\ seed.embed_task_ids # <<>>

\* C8: retry-failed seeds a task only when its earliest stage that is not
\* SUCCEEDED is FAILED, and during the whole execution a task it did not seed
\* keeps its row and is held by no worker.
C8_RetryFailedLeavesOthersAlone ==
  /\ [][ (pc = "queue_seed" /\ pc' = "seed_push" /\ cmd.failed_only) =>
           \A i \in Seeded(seed') :
             /\ EarliestOpenStage(tasks[i]) # "none"
             /\ StatusOf(tasks[i], EarliestOpenStage(tasks[i])) = "FAILED" ]_vars
  /\ [][ (pc # "idle" /\ cmd.failed_only) =>
           \A i \in DOMAIN tasks \ Seeded(seed) :
             /\ tasks'[i] = tasks[i]
             /\ \A w \in WorkerIds : ~(worker'[w].task = i) ]_vars

\* retry-failed re-runs a failed task while another task, left PENDING or
\* RUNNING by a killed execution, is not seeded
C8_Witness ==
  /\ cmd.failed_only
  /\ \E w \in WorkerIds : worker[w].pc = "call"
  /\ \E i \in DOMAIN tasks \ Seeded(seed) :
       /\ EarliestOpenStage(tasks[i]) # "none"
       /\ StatusOf(tasks[i], EarliestOpenStage(tasks[i])) \in {"PENDING", "RUNNING"}

\* a resume that found the run COMPLETED is executing
ResumeOnCompleted ==
  pc # "idle" /\ cmd.kind = "resume" /\ cmd.found_completed

C10_FinishedRunIsTerminal ==
  (pc = "idle" /\ ended \in {"returned", "interrupted"}) => run.status \in Terminal

\* the task counts finalize_run reads
CountC == CountFinal(tasks, "COMPLETED")
CountF == CountFinal(tasks, "FAILED")
CountP == CountFinal(tasks, "PENDING")
CountT == Cardinality(DOMAIN tasks)

\* C11: when a command has returned from finalize_run, the run status is the
\* first match of: T > 0 and C = T gives COMPLETED; C > 0 and F > 0 gives
\* PARTIAL_FAILURE; F = T and T > 0 gives FAILED; C > 0 and P > 0 gives
\* PARTIAL_FAILURE; otherwise FAILED if F > 0, else RUNNING; and
\* completed_chunks = C, failed_chunks = F.
C11_FinalizeRule ==
  (pc = "idle" /\ ended = "returned") =>
    /\ run.status =
         CASE CountT > 0 /\ CountC = CountT -> "COMPLETED"
           [] ~(CountT > 0 /\ CountC = CountT) /\ CountC > 0 /\ CountF > 0 -> "PARTIAL_FAILURE"
           [] CountC = 0 /\ CountF = CountT /\ CountT > 0 -> "FAILED"
           [] CountC > 0 /\ CountF = 0 /\ CountC < CountT /\ CountP > 0 -> "PARTIAL_FAILURE"
           [] CountC = 0 /\ CountF > 0 /\ CountF < CountT -> "FAILED"
           [] OTHER -> "RUNNING"
    /\ run.completed_chunks = CountC
    /\ run.failed_chunks = CountF

\* finalize_run has returned for a run with completed and pending tasks and no
\* failed one
C11_Witness ==
  /\ pc = "idle"
  /\ ended = "returned"
  /\ CountC > 0
  /\ CountP > 0
  /\ CountF = 0
  /\ run.status = "PARTIAL_FAILURE"

\* C12: in every state completed_chunks + failed_chunks <= total_chunks, and
\* total_chunks is the number of tasks create_run_from_plan inserted.
C12_CountersWithinTotal ==
  /\ run.completed_chunks + run.failed_chunks <= run.total_chunks
  /\ run.total_chunks = CountT

\* a finalized run with a completed and a failed task
C12_Witness ==
  /\ run.completed_chunks > 0
  /\ run.failed_chunks > 0
  /\ run.completed_chunks + run.failed_chunks = run.total_chunks

\* C13: the chunk row of a task is in kb_chunks exactly when the task is
\* marked upsert_status = SUCCEEDED and final_status = COMPLETED, in every
\* state, also after a failed upsert transaction or a killed process.
C13_UpsertAtomic ==
  \A i \in DOMAIN tasks :
    /\ RowsWithKey(kb_chunks, i) # {} =>
         (tasks[i].upsert_status = "SUCCEEDED" /\ tasks[i].final_status = "COMPLETED")
    /\ (tasks[i].upsert_status = "SUCCEEDED" \/ tasks[i].final_status = "COMPLETED") =>
         RowsWithKey(kb_chunks, i) # {}

\* the upsert transaction of one task has failed, that of another has committed
C13_Witness ==
  /\ \E w \in WorkerIds :
       /\ w[1] = "upsert"
       /\ worker[w].pc = "fail"
       /\ RowsWithKey(kb_chunks, worker[w].task) = {}
  /\ \E i \in DOMAIN tasks : RowsWithKey(kb_chunks, i) # {}

\* C14: kb_chunks holds at most one row per (source_id, chunk_index) after any
\* sequence of runs and resumes; a COMPLETED task's row carries the outputs of
\* its upsert, the latest one for the key; and when the plan has run to
\* completion, again or for the first time, the table has as many rows as the
\* plan has chunks.
C14_UpsertIdempotent ==
  /\ \A r \in BagToSet(kb_chunks) : CopiesIn(r, kb_chunks) = 1
  /\ \A r1, r2 \in BagToSet(kb_chunks) : r1.key = r2.key => r1 = r2
  /\ \A i \in DOMAIN tasks :
       tasks[i].final_status = "COMPLETED" => RowsWithKey(kb_chunks, i) = {ChunkRow(tasks, i)}
  /\ (\A i \in DOMAIN tasks : tasks[i].final_status = "COMPLETED")
       => BagCardinality(kb_chunks) = CountT

\* the plan of MaxTasks chunks has been run to completion a second time, and
\* every row is the second run's
C14_Witness ==
  /\ runs = 2
  /\ CountT = MaxTasks
  /\ run.status = "COMPLETED"
  /\ BagCardinality(kb_chunks) = MaxTasks
  /\ \A r \in BagToSet(kb_chunks) : r.structured_json = 2

\* C15: a stage call of either client invokes the remote service at most
\* 1 + request_retries times, whatever the service answers.
C15_CallsWithinBudget ==
  /\ call.calls = Len(call.responses)
  /\ call.calls <= 1 + call.request_retries

\* a call that used its whole budget of MaxRetries retries and then gave up
C15_Witness ==
  /\ call.pc = "raised"
  /\ call.request_retries = MaxRetries
  /\ call.calls = 1 + MaxRetries

\* a response whose content is a JSON object missing a required field
SchemaInvalid == [kind |-> "ok", status |-> 200, body |-> "schema_invalid"]

\* a response whose content is not JSON
NotJson == [kind |-> "ok", status |-> 200, body |-> "not_json"]

\* C16: a response that is JSON but does not conform to the schema is the last
\* of its call: answered first, the call makes exactly one remote invocation
\* even with request_retries >= 1; the stage and the task are recorded FAILED
\* with a non-empty llm_error, and a run of that one task ends FAILED.
C16_ValidationFailClosed ==
  /\ \A k \in 1..Len(call.responses) :
       call.responses[k] = SchemaInvalid
         => k = Len(call.responses) /\ call.pc \in {"raised", "none"}
  /\ (call.stage = "llm" /\ call.responses # <<>> /\ call.responses[1] = SchemaInvalid) =>
       /\ call.calls = 1
       /\ call.pc = "none" =>
            /\ tasks[call.task].llm_status = "FAILED"
            /\ tasks[call.task].final_status = "FAILED"
            /\ tasks[call.task].llm_error # ""
            /\ (CountT = 1 /\ run.status # "RUNNING") => run.status = "FAILED"

\* with request_retries >= 1, the one task of a run got a nonconforming answer
\* and the run has been finalized
C16_Witness ==
  /\ call.pc = "none"
  /\ call.stage = "llm"
  /\ call.request_retries >= 1
  /\ call.responses = << SchemaInvalid >>
  /\ CountT = 1
  /\ run.status = "FAILED"

\* C17: when the first answer of an extraction call is not JSON (and the
\* service would answer a valid payload next, with request_retries >= 1), the
\* call ends after exactly two remote invocations and the stage is SUCCEEDED
\* with llm_retry_count = 1.
C17_UnparseableIsRetried ==
  ( /\ call.pc = "none"
    /\ call.stage = "llm"
    /\ call.request_retries >= 1
    /\ call.responses # <<>>
    /\ call.responses[1] = NotJson )
  => /\ call.calls = 2
     /\ tasks[call.task].llm_status = "SUCCEEDED"
     /\ tasks[call.task].llm_retry_count = 1

\* the faults the specification calls transient: 429, 5xx, a network fault
TransientFault(resp) ==
  \/ resp.kind = "url_error"
  \/ resp.kind = "http_error" /\ (resp.status = 429 \/ resp.status \in 500..599)

\* a 4xx other than 429
PermanentFault(resp) ==
  resp.kind = "http_error" /\ resp.status \in 400..499 /\ resp.status # 429

C19_FailureIsolation ==
  /\ \A i \in DOMAIN tasks : \A s \in {"llm", "embed"} :
       StatusOf(tasks[i], s) = "FAILED" =>
         /\ i \notin Range(queue[NextStage(s)])
         /\ \A w \in WorkerIds : ~(w[1] = s /\ worker[w].pc = "put" /\ worker[w].task = i)
  /\ pc = "finalize_run" =>
       \A i \in Seeded(seed) : tasks[i].final_status \in {"COMPLETED", "FAILED"}

\* C20: no error leaves a worker: a worker task ends only by dequeuing the
\* stop sentinel, never with an exception.
C20_WorkersLeaveOnlyBySentinel ==
  \A w \in WorkerIds : worker[w].pc # "raised"

\* C22: when a command whose execution was interrupted has exited, the run row
\* has status CANCELLED (cancel_run was invoked), be the command run, resume or
\* retry-failed.
C22_InterruptedRunIsCancelled ==
  (pc = "idle" /\ ended = "interrupted") => run.status = "CANCELLED"

\* C23: once the orchestrator has received the cancellation, no worker takes a
\* task id from its queue and starts the stage on it.
C23_NoStageStartAfterSignal ==
  [][ cancelling =>
        \A w \in WorkerIds :
          ~(worker[w].pc = "get" /\ worker'[w].pc \in {"call", "save"}) ]_vars

\* the ids the seed gives to the queue of a stage
SeedOf(sd, stage) ==
  CASE stage = "llm"    -> sd.llm_task_ids
    [] stage = "embed"  -> sd.embed_task_ids
    [] stage = "upsert" -> sd.upsert_task_ids

\* id i is seeded and not yet dequeued: still to be pushed, or in the queue it
\* was pushed to
Waiting(i) ==
  \/ i \in Seeded(to_push)
  \/ \E s \in Stages : i \in Range(SeedOf(seed, s)) /\ i \in Range(queue[s])

\* C21: the seeding loop always comes to its end, and every seeded id that
\* waits, to be pushed or in its queue, is eventually dequeued by a worker (or
\* the command has ended), also when the seed holds more ids than a queue takes.
C21_SeedingCompletes ==
  /\ (pc = "seed_push") ~> (pc # "seed_push")
  /\ \A i \in 1..MaxTasks : Waiting(i) ~> ~Waiting(i)

\* ceil(a / b) for a >= 0 and b > 0
CeilDiv(a, b) == (a + b - 1) \div b

\* chunk_tokens was called with 0 <= overlap < chunk_size and has returned
ChunkedValid ==
  /\ chunked.pc = "returned"
  /\ 0 <= chunked.overlap
  /\ chunked.overlap < chunked.chunk_size

\* C24 as stated: for 0 <= overlap < chunk_size a document of D tokens gives
\* ceil(max(0, D - overlap) / (chunk_size - overlap)) chunks when D > 0, and no
\* chunk when D = 0.
C24_ChunkCount ==
  ChunkedValid =>
    Len(chunked.chunks) =
      IF chunked.tokens = 0 THEN 0
      ELSE CeilDiv(Max(0, chunked.tokens - chunked.overlap),
                   chunked.chunk_size - chunked.overlap)

\* C24 as amended: for 0 <= overlap < chunk_size a document of D > 0 tokens
\* gives max(1, ceil((D - overlap) / (chunk_size - overlap))) chunks: a
\* document of at most `overlap` tokens is one chunk, not none; D = 0 gives no
\* chunk.
C24_ChunkCountAtLeastOne ==
  ChunkedValid =>
    Len(chunked.chunks) =
      IF chunked.tokens = 0 THEN 0
      ELSE Max(1, CeilDiv(Max(0, chunked.tokens - chunked.overlap),
                          chunked.chunk_size - chunked.overlap))

\* a document longer than chunk_size was cut into three chunks or more that
\* overlap
C24_Witness ==
  /\ ChunkedValid
  /\ chunked.overlap >= 1
  /\ chunked.tokens > chunked.chunk_size
  /\ Len(chunked.chunks) >= 3

\* C25: a pair (chunk_size, overlap) that does not satisfy
\* 0 <= overlap < chunk_size is rejected: the call raises and returns no chunk.
C25_InvalidPairRejected ==
  ( /\ chunked.pc \in {"returned", "raised"}
    /\ ~(0 <= chunked.overlap /\ chunked.overlap < chunked.chunk_size) )
  => chunked.pc = "raised"

\* the plans built so far that came back (no error)
Plans == {planned.results[k] : k \in 1..Len(planned.results)}

\* the token count of the document of a source of the manifest
DocTokensOf(source_id) ==
  planned.manifest[CHOOSE k \in 1..Len(planned.manifest) :
                     planned.manifest[k].source_id = source_id].tokens

\* the chunks of a source, all of them
ChunksOf(source_id) ==
  chunk_tokens(DocTokensOf(source_id), planned.cfg.chunk_size, planned.cfg.overlap).chunks

\* the tasks of a plan
TasksOf(plan) == {plan.tasks[j] : j \in 1..Len(plan.tasks)}

\* C26: every task of a source whose document has at most
\* full_doc_threshold_tokens tokens is FULL_DOC, with the whole document as
\* context_text and the window 0 .. N - 1, N the number of chunks of the
\* source; every task of any other source is SURROUNDING_CHUNKS; two tasks of
\* one source never differ in mode.
C26_ContextModeBySource ==
  \A plan \in Plans :
    /\ \A t \in TasksOf(plan) :
         IF DocTokensOf(t.source_id) <= planned.cfg.full_doc_threshold_tokens
         THEN /\ t.context_mode = "FULL_DOC"
              /\ t.context_text =
                   << [label |-> 0, of |-> 0, text |-> DocText(DocTokensOf(t.source_id))] >>
              /\ t.context_window_start = 0
              /\ t.context_window_end = Len(ChunksOf(t.source_id)) - 1
         ELSE t.context_mode = "SURROUNDING_CHUNKS"
    /\ \A t, u \in TasksOf(plan) :
         t.source_id = u.source_id => t.context_mode = u.context_mode

\* one plan holds several tasks of a FULL_DOC source and several of a
\* SURROUNDING_CHUNKS source
C26_Witness ==
  \E plan \in Plans :
    \E t, u \in TasksOf(plan) :
      /\ t.context_mode = "FULL_DOC" /\ t.chunk_index >= 1
      /\ u.context_mode = "SURROUNDING_CHUNKS" /\ u.chunk_index >= 1

\* C27: a SURROUNDING_CHUNKS task with index i of a source with N chunks
\* records the window max(0, i - 3) .. min(N - 1, i + 3), and its context_text
\* is made of the chunks of that window other than i, each once, in increasing
\* index order.
C27_SurroundingWindow ==
  \A plan \in Plans :
    \A t \in TasksOf(plan) :
      t.context_mode = "SURROUNDING_CHUNKS" =>
        LET N  == Len(ChunksOf(t.source_id))
            i  == t.chunk_index
            ct == t.context_text
        IN  /\ t.context_window_start = Max(0, i - 3)
            /\ t.context_window_end = Min(N - 1, i + 3)
            /\ {ct[j].label - 1 : j \in 1..Len(ct)}
                 = (t.context_window_start .. t.context_window_end) \ {i}
            /\ \A j \in 1..Len(ct) :
                 /\ ct[j].text = ChunksOf(t.source_id)[ct[j].label]
                 /\ ct[j].of = N
                 /\ j < Len(ct) => ct[j].label < ct[j + 1].label

\* a task with three neighbours on each side, and in the same plan one whose
\* window is cut at the start and one whose window is cut at the end
C27_Witness ==
  \E plan \in Plans :
    \E t, u, v \in TasksOf(plan) :
      /\ t.context_mode = "SURROUNDING_CHUNKS"
      /\ t.chunk_index - 3 >= 0 /\ t.chunk_index + 3 <= t.chunk_count - 1
      /\ Len(t.context_text) = 6
      /\ u.source_id = t.source_id /\ u.chunk_index = 1 /\ u.context_window_start = 0
      /\ v.source_id = t.source_id /\ v.chunk_index = t.chunk_count - 2
      /\ v.context_window_end = t.chunk_count - 1

\* the tasks of the plan the same inputs give without max_chunks
UncappedTasks ==
  plan_from_kb(planned.manifest, planned.source_filter,
               [planned.cfg EXCEPT !.max_chunks = [given |-> FALSE, m |-> 0]], 1).tasks

\* C28: with max_chunks = m the plan is the first min(m, total) tasks, in
\* order, of the plan made without the cap.
C28_MaxChunksPrefix ==
  \A plan \in Plans :
    planned.cfg.max_chunks.given =>
      plan.tasks = SubSeq(UncappedTasks, 1, Min(planned.cfg.max_chunks.m, Len(UncappedTasks)))

\* a cap that cuts the plan inside its second source
C28_Witness ==
  \E plan \in Plans :
    /\ planned.cfg.max_chunks.given
    /\ Len(plan.tasks) = planned.cfg.max_chunks.m
    /\ Len(plan.tasks) < Len(UncappedTasks)
    /\ \E t, u \in TasksOf(plan) : t.source_id # u.source_id
    /\ plan.tasks[Len(plan.tasks)].chunk_index < plan.tasks[Len(plan.tasks)].chunk_count - 1

C30_TaskKeyUnique ==
  /\ UniqueRows(planned.task_rows)
  /\ \A plan \in Plans :
       \A j, k \in 1..Len(plan.tasks) :
         ( /\ plan.tasks[j].source_id = plan.tasks[k].source_id
           /\ plan.tasks[j].chunk_index = plan.tasks[k].chunk_index ) => j = k

\* two runs of a plan with several chunks of two sources are stored
C30_Witness ==
  \E r1, r2 \in BagToSet(planned.task_rows) :
    /\ r1.run_id = 1 /\ r2.run_id = 2
    /\ r1.source_id = r2.source_id /\ r1.chunk_index = r2.chunk_index
    /\ r1.chunk_index >= 1
    /\ \E r3 \in BagToSet(planned.task_rows) : r3.source_id # r1.source_id /\ r3.run_id = 1

\* the number of tokens of a chunk
TokensIn(w) == w.hi - w.lo

\* C32: for 0 <= overlap < chunk_size every chunk is a window of at most
\* chunk_size tokens, every chunk but the last has exactly chunk_size tokens,
\* no chunk is empty, and a document of more than chunk_size tokens gives more
\* than one chunk.
C32_ChunkSizes ==
  ChunkedValid =>
    LET chunks == chunked.chunks
    IN  /\ \A k \in 1..Len(chunks) :
             /\ TokensIn(chunks[k]) >= 1
             /\ TokensIn(chunks[k]) <= chunked.chunk_size
             /\ k < Len(chunks) => TokensIn(chunks[k]) = chunked.chunk_size
        /\ chunked.tokens > chunked.chunk_size => Len(chunks) > 1

\* a document that ends in a chunk shorter than chunk_size, after two full ones
C32_Witness ==
  /\ ChunkedValid
  /\ Len(chunked.chunks) >= 3
  /\ TokensIn(chunked.chunks[Len(chunked.chunks)]) < chunked.chunk_size

\* C40: for D > 0 and 0 <= overlap < chunk_size the windows cover every token
\* position 0 .. D - 1, window k (from 0) starts at k * (chunk_size - overlap),
\* and two consecutive windows share exactly `overlap` tokens unless the later
\* one is the truncated last window.
C40_WindowsCover ==
  (ChunkedValid /\ chunked.tokens > 0) =>
    LET chunks == chunked.chunks
        n      == Len(chunks)
    IN  /\ \A pos \in 0..(chunked.tokens - 1) :
             \E k \in 1..n : chunks[k].lo <= pos /\ pos < chunks[k].hi
        /\ \A k \in 1..n : chunks[k].lo = (k - 1) * (chunked.chunk_size - chunked.overlap)
        /\ \A k \in 1..(n - 1) :
             \/ Min(chunks[k].hi, chunks[k + 1].hi) - chunks[k + 1].lo = chunked.overlap
             \/ k + 1 = n /\ TokensIn(chunks[n]) < chunked.chunk_size

\* three windows or more with an overlap of two tokens, the last one full
C40_Witness ==
  /\ ChunkedValid
  /\ chunked.overlap >= 2
  /\ Len(chunked.chunks) >= 3
  /\ TokensIn(chunked.chunks[Len(chunked.chunks)]) = chunked.chunk_size

\* C31: create_run_from_plan is all-or-nothing: after it the store holds the
\* run row with status PENDING, the row of every source of the plan and a
\* task row for every task of the plan with the three stage statuses and
\* final_status PENDING, or the store is as it was before.
C31_CreateRunAllOrNothing ==
  [][ planned.pc = "create" =>
        LET run_id == Len(planned.results)
            plan   == planned.results[run_id]
        IN  \/ Store(planned') = Store(planned)
            \/ /\ [id |-> run_id, status |-> "PENDING", total_chunks |-> Len(plan.tasks)]
                    \in planned'.ingest_runs
               /\ \A j \in 1..Len(plan.sources) : plan.sources[j] \in planned'.kb_sources
               /\ \A j \in 1..Len(plan.tasks) :
                    \E r \in BagToSet(planned'.task_rows) :
                      /\ r.run_id = run_id
                      /\ r.source_id = plan.tasks[j].source_id
                      /\ r.chunk_index = plan.tasks[j].chunk_index
                      /\ r.llm_status = "PENDING" /\ r.embed_status = "PENDING"
                      /\ r.upsert_status = "PENDING" /\ r.final_status = "PENDING" ]_vars

\* the first run's transaction failed and left nothing, the second one stored
\* its run row, replaced the earlier row of source 1 and inserted several tasks
C31_Witness ==
  /\ planned.pc = "plan"
  /\ Len(planned.results) = 2
  /\ {r.id : r \in planned.ingest_runs} = {2}
  /\ Len(planned.results[1].tasks) >= 2
  /\ \E s \in planned.kb_sources : s.source_id = 1 /\ s.token_count <= MaxDocTokens
  /\ Cardinality(planned.kb_sources) = 2
  /\ Cardinality(BagToSet(planned.task_rows)) >= 2

\* the sentinels lying in the queue of a stage
SentinelsIn(stage) == Occurrences(queue[stage], STOP)

\* the sentinels the shutdown block still has to put on the queue of a stage
SentinelsToPut(stage) == Occurrences(stops, stage)

\* the workers of a stage that have returned after dequeuing a sentinel
Returned(stage) == {w \in WorkerIds : w[1] = stage /\ worker[w].pc = "exited"}

\* the execution has left the normal path: it was interrupted or killed, or a
\* database operation did not return to a worker (save_<stage>_failure raised)
OffNormalPath ==
  \/ cancelling
  \/ ended \in {"interrupted", "killed"}
  \/ \E w \in WorkerIds : worker[w].pc = "raised"

InFlight(stage) == {w \in WorkerIds : w[1] = stage /\ worker[w].pc \in {"call", "save"}}

\* <stage>_concurrency of the configuration
Concurrency(stage) ==
  CASE stage = "llm"    -> config.llm_concurrency
    [] stage = "embed"  -> config.embed_concurrency
    [] stage = "upsert" -> config.upsert_concurrency

WorkersInStage(source, stage) ==
  { w \in WorkerIds : /\ w[1] = stage
                      /\ worker[w].pc \in {"call", "save", "put", "fail"}
                      /\ SourceOf(worker[w].task) = source }

\* C36: in a fresh run, for every source and stage, <stage>_running of the
\* progress map is the number of workers between the start and the end of that
\* stage for a task of that source, and is never negative.
C36_RunningCountsWorkers ==
  (cmd.kind = "run" /\ progress # NoProgress) =>
    \A source \in DOMAIN progress, stage \in Stages :
      /\ progress[source][stage].running >= 0
      /\ progress[source][stage].running = Cardinality(WorkersInStage(source, stage))

\* the workers that hold a task id: dequeued and not yet handed on or given up
Holders(id) ==
  {w \in WorkerIds : worker[w].pc \in {"call", "save", "put", "fail"} /\ worker[w].task = id}

\* the number of places a task id is in: seed positions still to be put,
\* queue positions, workers holding it
Places(id) ==
  Occurrences(to_push.llm_task_ids, id) + Occurrences(to_push.embed_task_ids, id)
    + Occurrences(to_push.upsert_task_ids, id)
    + Occurrences(queue["llm"], id) + Occurrences(queue["embed"], id)
    + Occurrences(queue["upsert"], id)
    + Cardinality(Holders(id))

\* C37: within one execution a task id is in at most one place at any moment
\* (one queue position or one worker), so no two workers process a task at
\* the same time, and a stage is started at most once per task, so no remote
\* stage call is made twice.
C37_OnePlaceOneStart ==
  /\ [](\A id \in DOMAIN tasks : Places(id) <= 1)
  /\ [][ \A w \in WorkerIds :
           (worker[w].pc = "get" /\ worker'[w].pc \in {"call", "save"}) =>
             << worker'[w].task, w[1] >> \notin started ]_vars

\* the two extraction workers are in their calls, each with its own task, in
\* an execution that resumed the run
C37_Witness ==
  /\ cmd.kind = "resume"
  /\ \E w1, w2 \in WorkerIds :
       /\ w1 # w2
       /\ worker[w1].pc = "call" /\ worker[w2].pc = "call"
       /\ worker[w1].task # worker[w2].task
  /\ Cardinality(started) = 2

\* C39: when the three joins of an uninterrupted _execute_run with
\* failed_only = false have returned, every task has final_status COMPLETED or
\* FAILED and no stage status is RUNNING, so that finalize_run counts no
\* pending task.
C39_NothingInProgressAfterJoins ==
  ( /\ pc \in {"stop_put", "gather", "finalize_run"}
    /\ ~cancelling
    /\ ~cmd.failed_only ) =>
    /\ \A i \in DOMAIN tasks :
         /\ tasks[i].final_status \in {"COMPLETED", "FAILED"}
         /\ \A stage \in Stages : StatusOf(tasks[i], stage) # "RUNNING"
    /\ CountP = 0

\* C35: a resume of a run with tasks, after an execution that was interrupted
\* or killed with its tasks COMPLETED, succeeded through extraction or
\* embedding only, PENDING or RUNNING, and in which every stage call succeeds,
\* comes to its end, and when it returns every task is COMPLETED, the run is
\* COMPLETED and kb_chunks holds exactly one row per task key.
C35_ResumeCompletesRun ==
  /\ []( ( /\ cmd.kind = "resume" /\ pc = "idle" /\ ended = "returned"
           /\ CountT > 0 ) =>
           /\ \A i \in DOMAIN tasks : tasks[i].final_status = "COMPLETED"
           /\ run.status = "COMPLETED"
           /\ \A i \in DOMAIN tasks :
                /\ Cardinality(RowsWithKey(kb_chunks, i)) = 1
                /\ \A r \in RowsWithKey(kb_chunks, i) : CopiesIn(r, kb_chunks) = 1
           /\ \A r \in BagToSet(kb_chunks) : r.key \in DOMAIN tasks )
  /\ (cmd.kind = "resume" /\ pc = "mark_run_started")
       ~> (pc = "idle" /\ ended \in {"returned", "interrupted", "killed"})

\* the resume has returned after an execution that was killed while one task
\* was COMPLETED and the other was in a stage
C35_Witness ==
  /\ cmd.kind = "resume" /\ pc = "idle" /\ ended = "returned"
  /\ ~cmd.found_completed
  /\ CountT = MaxTasks
  /\ run.status = "COMPLETED"

\* C38: when _execute_run is cancelled while it waits on a join, its shutdown
\* block comes to its end: every sentinel is put and every worker task ends,
\* whatever was queued or in flight at the cancellation.
C38_CancelledShutdownEnds ==
  (cancelling /\ pc = "stop_put") ~> (pc \notin {"stop_put", "gather"})

====
